---- MODULE Spec2Model ----
(***************************************************************************)
(* Bring-up protocol of the euclid sandbox: the Supervisor (main.c) and    *)
(* Init (child_main in child.c) as two processes that share one pipe and   *)
(* the kernel's cgroup directory.  Every system call may fail; a failure   *)
(* is an input chosen by the environment.                                  *)
(***************************************************************************)
EXTENDS Integers, Sequences, FiniteSets, TLC

VARIABLES
  sup_pc,        \* Supervisor's position in main()
  sup_exit,      \* how the Supervisor ended: "none", "EXIT_SUCCESS", "EXIT_FAILURE", "SIGPIPE",
                 \* "SIGSEGV"
  sup_log,       \* the Supervisor's completed steps, in order
  ctx,           \* the Supervisor's container_ctx (NoCtx before init_ctx and after cleanup_ctx)
  heap,          \* init_ctx and cleanup_ctx: fields assigned, fields read, blocks freed
  pipe_bytes,    \* bytes waiting in the sync pipe
  pipe_rd,       \* processes holding an open descriptor of the read end
  pipe_wr,       \* processes holding an open descriptor of the write end
  sync_written,  \* bytes the Supervisor has written to the pipe so far
  ping,          \* main's write of the ping: its result and who could read the pipe then
  ctrl_enabled,  \* this run wrote "+cpu +memory +pids" to cgroup.subtree_control
  subtree,       \* enable_controllers: how open/write/close went, and the bytes written
  cg_dir,        \* /sys/fs/cgroup/euclid: "absent" or "present"
  cg_files,      \* limit file -> <<value written by this run>>, or <<>>
  cg_order,      \* limit files in the order they were written
  cg_written,    \* limit file -> the bytes handed to write, and whether value_str was overrun
  drv_fds,       \* descriptors the cgroup driver opened: flags, and whether close was called
  cg_procs,      \* processes written into euclid/cgroup.procs
  cfg_ret,       \* configure_cgroups: "none", "success", "failure"
  init_pc,       \* Init's position in child_main()
  init_status,   \* Init's wait status
  child_ctx,     \* Init's copy of the container_ctx (made by clone)
  read_result,   \* outcome of Init's read: "none", "byte", "eof", "fail"
  init_steps,    \* the functions child_main has called, in order
  init_sys,      \* the system calls Init has issued, in order
  init_failed,   \* the step at which child_main returned -1, or "none"
  cap,           \* loop counter of drop_capabilities
  bounding,      \* Init's capability bounding set
  cap_einval,    \* capabilities whose PR_CAPBSET_DROP returned EINVAL
  cap_sets,      \* which of effective/permitted/inheritable are non-empty
  no_new_privs,  \* PR_SET_NO_NEW_PRIVS flag of Init
  seccomp_on,    \* the seccomp filter is installed in Init
  target_sys,    \* the last system call of the target and the filter's verdict on it
  uts_hostname,  \* hostname of Init's UTS namespace
  mnt,           \* Init's mount namespace: propagation of /, mounts made, root
  overlay_heap,  \* setup_overlay's buffers: where it returned, what it allocated and freed
  host,          \* what outlives a run: directories on the host, and which run this is
  wait_ret,      \* waitpid in wait_for_container: "none", "pid", "error"
  wait_status,   \* the status word wait_for_container decodes
  report         \* lines wait_for_container printed

vars == <<sup_pc, sup_exit, sup_log, ctx, heap, pipe_bytes, pipe_rd, pipe_wr,
          sync_written, ping, ctrl_enabled, subtree, cg_dir, cg_files, cg_order, cg_written,
          drv_fds, cg_procs,
          cfg_ret, init_pc, init_status, child_ctx, read_result, init_steps,
          init_sys, init_failed, cap, bounding, cap_einval, cap_sets, no_new_privs,
          seccomp_on, target_sys, uts_hostname, mnt, overlay_heap, host, wait_ret, wait_status, report>>

supVars  == <<sup_pc, sup_exit, sup_log, ctx, heap>>
pipeVars == <<pipe_bytes, pipe_rd, pipe_wr, sync_written, ping>>
cgVars   == <<ctrl_enabled, subtree, cg_dir, cg_files, cg_order, cg_written, drv_fds,
               cfg_ret>>
initVars == <<init_pc, init_status, child_ctx, read_result, init_steps, init_sys,
             init_failed>>
secVars  == <<cap, bounding, cap_einval, cap_sets, no_new_privs, seccomp_on,
             target_sys>>
nsVars   == <<uts_hostname, mnt, overlay_heap, host>>
waitVars == <<wait_ret, wait_status, report>>

----------------------------------------------------------------------------
(* Bounds of the model *)

\* stands for CAP_LAST_CAP: capabilities are numbered 0..LastCap
LastCap == 2

----------------------------------------------------------------------------
(* Configuration constants, context.c *)

HOSTNAME == "euclid"
ROOTFS == "/home/noodle/alpine"
CMD == <<"/bin/sh">>
\* context.c:93, as the characters of the literal
CPU_MAX == <<"1", "0", "0", "0", "0", "0", ",", " ", "1", "0", "0", "0", "0", "0">>
MEM_MAX == 512000000
MEM_HIGH == MEM_MAX - (MEM_MAX \div 10)
MEM_SWAP_MAX == 0
PIDS_MAX == 256
SIGSYS == 31

\* init_ctx never assigns overlay_base and tmpfs_size: the malloc'ed struct
\* holds whatever the heap held.  The pointer either addresses no string
\* (system calls answer EFAULT) or happens to address some path.
IndeterminatePtr == {"unaddressable", "/stray/path"}
IndeterminateInt == {0, 64}

\* configure_cgroups writing memory.high before memory.max.
LimitFiles_highFirst ==
  <<"cpu.max", "memory.high", "memory.max", "memory.swap.max", "pids.max">>

\* The limit files in the order configure_cgroups writes them.
LimitFiles == <<"cpu.max", "memory.max", "memory.high", "memory.swap.max", "pids.max">>

LimitValue(c, file) ==
  CASE file = "cpu.max"          -> c.cpu_max
    [] file = "memory.max"       -> c.mem_max
    [] file = "memory.high"      -> c.mem_high
    [] file = "memory.swap.max"  -> c.mem_swap_max
    [] file = "pids.max"         -> c.pids_max

\* setup_overlay has not been called
NoOverlayHeap == [exit |-> 0, allocated |-> {}, freed |-> <<>>]

\* no overlay has been mounted
NoOverlay == [lowerdir |-> "none", upperdir |-> "none", workdir |-> "none"]

\* pivot_root has not been called
NoPivot == [new_root |-> "none", put_old |-> "none"]

\* Init's mount namespace as clone(CLONE_NEWNS) made it, a copy of the
\* Supervisor's: / is the host's root with the host's propagation, Init has
\* mounted nothing, and the lower directory ROOTFS has an entry .pivot_old
\* or not.
NoMounts(entry) ==
  [propagation   |-> "shared",
   mounted       |-> <<>>,
   overlay_at    |-> "none",
   root          |-> "host /",
   old_root      |-> "/",
   pivot_old_dir |-> entry,
   base_mkdir    |-> "none",
   tmpfs_dirs    |-> {},
   overlay_opts  |-> NoOverlay,
   pivot         |-> NoPivot]

\* The host at the first run: no earlier run has made an overlay_base
\* directory or the cgroup directory, or brought a container up.
FirstRun ==
  [run |-> 1, dirs |-> {}, left_cg |-> FALSE, prev_up |-> FALSE, rootfs_changed |-> FALSE]

\* no container_ctx: before init_ctx, after cleanup_ctx, or before clone
NoCtx == [null |-> TRUE]

Range(s) == {s[i] : i \in 1..Len(s)}

IndexOf(s, x) == CHOOSE i \in 1..Len(s) : s[i] = x

----------------------------------------------------------------------------
(* Init state *)

\* init_ctx has not been called.
NoHeap == [ret |-> "not called", failed |-> "none", assigned |-> {}, cleanup_read |-> {},
           freed |-> <<>>]

\* No write has been issued on a limit file yet.
NothingWritten == [bytes |-> <<>>, overrun |-> FALSE]

Init ==
  /\ sup_pc = "pipe"
  /\ sup_exit = "none"
  /\ sup_log = <<>>
  /\ ctx = NoCtx
  /\ heap = NoHeap
  /\ pipe_bytes = 0
  /\ pipe_rd = {}
  /\ pipe_wr = {}
  /\ sync_written = 0
  /\ ping = [ret |-> "none", readers |-> {}]
  /\ ctrl_enabled = FALSE
  /\ subtree = [outcome |-> "none", bytes |-> <<>>]
  /\ cg_dir \in {"absent", "present"}    \* the directory is never removed (cgroups.c:97-99)
  /\ cg_files = [f \in Range(LimitFiles) |-> <<>>]
  /\ cg_order = <<>>
  /\ cg_written = [f \in Range(LimitFiles) |-> NothingWritten]
  /\ drv_fds = {}
  /\ cg_procs = {}
  /\ cfg_ret = "none"
  /\ init_pc = "unborn"
  /\ init_status = [kind |-> "unborn", code |-> 0]
  /\ child_ctx = NoCtx
  /\ read_result = "none"
  /\ init_steps = <<>>
  /\ init_sys = <<>>
  /\ init_failed = "none"
  /\ cap = 0
  /\ bounding = 0..LastCap
  /\ cap_einval = {}
  /\ cap_sets = {"effective", "permitted", "inheritable"}
  /\ no_new_privs = FALSE
  /\ seccomp_on = FALSE
  /\ target_sys = [nr |-> -1, verdict |-> "none"]
  /\ uts_hostname = "host"
  /\ host = FirstRun
  /\ overlay_heap = NoOverlayHeap
  /\ mnt \in {NoMounts(e) : e \in BOOLEAN}
  /\ wait_ret = "none"
  /\ wait_status = [kind |-> "unset", code |-> 0]
  /\ report = {}

----------------------------------------------------------------------------
(* Supervisor: main.c *)

\* exit(): the process ends and the kernel closes its descriptors.
SupExit(status) ==
  /\ sup_pc' = "done"
  /\ sup_exit' = status
  /\ pipe_rd' = pipe_rd \ {"sup"}
  /\ pipe_wr' = pipe_wr \ {"sup"}

\* main.c:192-196
main_pipe ==
  /\ sup_pc = "pipe"
  /\ \E ok \in BOOLEAN :
       IF ok
       THEN /\ pipe_rd' = {"sup"}
            /\ pipe_wr' = {"sup"}
            /\ sup_pc' = "init_ctx"
            /\ sup_log' = Append(sup_log, "pipe")
            /\ UNCHANGED sup_exit
       ELSE /\ SupExit("EXIT_FAILURE")
            /\ UNCHANGED sup_log
  /\ UNCHANGED <<ctx, heap, pipe_bytes, sync_written, ping, cgVars, cg_procs, initVars,
                 secVars, nsVars, waitVars>>

\* context.c:212-276: the fields init_ctx assigns, and the two it leaves
\* with the heap's content.
NewCtx(ob, ts) ==
  [hostname     |-> HOSTNAME,
   rootfs       |-> ROOTFS,
   cmd          |-> CMD,
   cpu_max      |-> CPU_MAX,
   mem_high     |-> MEM_HIGH,
   mem_max      |-> MEM_MAX,
   mem_swap_max |-> MEM_SWAP_MAX,
   pids_max     |-> PIDS_MAX,
   pipe_fds     |-> <<"rd", "wr">>,
   overlay_base |-> ob,
   tmpfs_size   |-> ts]

\* context.c:214-258: the allocations of init_ctx in program order, each
\* named by the field (or the structure) that receives the block.
InitCtxAllocs == <<"ctx", "hostname", "rootfs", "cmd", "cmd[0]", "cpu_max">>

\* context.c:266-273: the fields assigned without an allocation
InitCtxScalars == {"mem_high", "mem_max", "mem_swap_max", "pids_max", "pipe_fds"}

\* context.c:157-178: the fields cleanup_ctx reads.  ctx->cmd[i] reads
\* ctx->cmd and the element it points to.
CleanupReads == {"cmd", "cmd[0]", "hostname", "rootfs", "cpu_max"}

\* context.c:157-180: the blocks cleanup_ctx passes to free, in order, when
\* the blocks of `live` are the ones its fields point to.
CleanupFrees(live) ==
  SelectSeq(<<"cmd[0]", "cmd", "hostname", "rootfs", "cpu_max">>, LAMBDA b : b \in live)
    \o <<"ctx">>

\* context.c:212-264: init_ctx when its k-th allocation fails.  The field
\* of the failed allocation is assigned NULL; malloc does not clear the
\* structure, so the fields not yet assigned hold what the heap held.
\* cleanup_ctx is called except when ctx itself (return NULL) or the cmd
\* array (free(ctx) only) could not be allocated.
InitCtxFails(k) ==
  LET failed   == InitCtxAllocs[k]
      live     == {InitCtxAllocs[j] : j \in 1..(k - 1)}
      assigned == {InitCtxAllocs[j] : j \in 2..k}
      cleanup  == failed \notin {"ctx", "cmd"}
  IN  [ret          |-> "NULL",
       failed       |-> failed,
       assigned     |-> assigned,
       cleanup_read |-> IF cleanup THEN CleanupReads ELSE {},
       freed        |-> IF cleanup THEN CleanupFrees(live)
                        ELSE IF failed = "cmd" THEN <<"ctx">> ELSE <<>>]

\* context.c:212-276: init_ctx when every allocation succeeds.
InitCtxSucceeds ==
  [ret          |-> "ctx",
   failed       |-> "none",
   assigned     |-> (Range(InitCtxAllocs) \ {"ctx"}) \cup InitCtxScalars,
   cleanup_read |-> {},
   freed        |-> <<>>]

\* How the Supervisor ends after init_ctx failed: main exits with
\* EXIT_FAILURE (main.c:204-207); when cleanup_ctx used a field that was
\* never assigned, the free of that value may also have ended the process.
ExitsAfterInitCtxFailed(h) ==
  IF h.cleanup_read \subseteq h.assigned
  THEN {"EXIT_FAILURE"}
  ELSE {"EXIT_FAILURE", "SIGSEGV"}

\* main.c:203-207
main_init_ctx ==
  /\ sup_pc = "init_ctx"
  /\ \/ \E ob \in IndeterminatePtr, ts \in IndeterminateInt :
          /\ ctx' = NewCtx(ob, ts)
          /\ heap' = InitCtxSucceeds
          /\ sup_pc' = "spawn"
          /\ sup_log' = Append(sup_log, "init_ctx")
          /\ UNCHANGED <<sup_exit, pipe_rd, pipe_wr>>
     \/ \E k \in 1..Len(InitCtxAllocs) :   \* an allocation failed: NULL
          /\ heap' = InitCtxFails(k)
          /\ \E st \in ExitsAfterInitCtxFailed(heap') : SupExit(st)
          /\ UNCHANGED <<ctx, sup_log>>
  /\ UNCHANGED <<pipe_bytes, sync_written, ping, cgVars, cg_procs, initVars,
                 secVars, nsVars, waitVars>>

\* child_main setting the hostname after the mount propagation.
ChildOrder_hostnameLate ==
  <<"read", "add_self_to_cgroup", "setup_mount_propagation",
    "setup_uts_namespace", "setup_overlay", "setup_rootfs", "mount_dev",
    "mount_proc", "drop_capabilities", "lock_capabilities", "apply_seccomp",
    "execvp">>

\* child_main installing the filter before PR_SET_NO_NEW_PRIVS.
ChildOrder_seccompBeforeLock ==
  <<"read", "add_self_to_cgroup", "setup_uts_namespace",
    "setup_mount_propagation", "setup_overlay", "setup_rootfs", "mount_dev",
    "mount_proc", "drop_capabilities", "apply_seccomp", "lock_capabilities",
    "execvp">>

\* child_main dropping the capabilities before /proc is mounted.
ChildOrder_capsBeforeProc ==
  <<"read", "add_self_to_cgroup", "setup_uts_namespace",
    "setup_mount_propagation", "setup_overlay", "setup_rootfs", "mount_dev",
    "drop_capabilities", "mount_proc", "lock_capabilities", "apply_seccomp",
    "execvp">>

\* child_main making / private only after the overlay is built.
ChildOrder_propagationLate ==
  <<"read", "add_self_to_cgroup", "setup_uts_namespace", "setup_overlay",
    "setup_mount_propagation", "setup_rootfs", "mount_dev", "mount_proc",
    "drop_capabilities", "lock_capabilities", "apply_seccomp", "execvp">>

\* child_main with the cgroup join moved in front of the pipe read.
ChildOrder_joinFirst ==
  <<"add_self_to_cgroup", "read", "setup_uts_namespace",
    "setup_mount_propagation", "setup_overlay", "setup_rootfs", "mount_dev",
    "mount_proc", "drop_capabilities", "lock_capabilities", "apply_seccomp",
    "execvp">>

\* The calls of child_main in program order (child.c:565-646).
ChildOrder ==
  <<"read", "add_self_to_cgroup", "setup_uts_namespace",
    "setup_mount_propagation", "setup_overlay", "setup_rootfs", "mount_dev",
    "mount_proc", "drop_capabilities", "lock_capabilities", "apply_seccomp",
    "execvp">>

\* The Supervisor closing its copy of the read end once Init exists.
SupFdsAfterSpawn_onlyWrite == {"wr"}

\* main.c:82-126: clone() without CLONE_FILES gives Init a copy of the
\* descriptor table, so Init holds both ends of the pipe; the Supervisor
\* closes neither end afterwards.
SupFdsAfterSpawn == {"rd", "wr"}

\* main.c:105-106: the flags passed to clone
CloneFlags ==
  {"CLONE_NEWUTS", "CLONE_NEWPID", "CLONE_NEWNS", "CLONE_NEWNET", "CLONE_NEWIPC", "SIGCHLD"}

\* A clone with CLONE_VM: Init runs in the Supervisor's memory.
SharesMemory_cloneVm == TRUE

\* main.c:105-108: without CLONE_VM Init gets a copy-on-write copy of the
\* Supervisor's memory, the configuration included
SharesMemory == "CLONE_VM" \in CloneFlags

\* main going on to the cgroups whatever spawn_container returned.
SpawnFailedExits_never(pid) == FALSE

\* main.c:215-218: a return of -1 ends the Supervisor
SpawnFailedExits(pid) == pid = -1

\* main.c:214-218
spawn_container ==
  /\ sup_pc = "spawn"
  /\ \/ /\ init_pc' = ChildOrder[1]
        /\ init_status' = [kind |-> "running", code |-> 0]
        /\ child_ctx' = ctx
        /\ pipe_rd' = {"init"} \cup (IF "rd" \in SupFdsAfterSpawn THEN {"sup"} ELSE {})
        /\ pipe_wr' = {"init"} \cup (IF "wr" \in SupFdsAfterSpawn THEN {"sup"} ELSE {})
        /\ sup_pc' = "enable_controllers"
        /\ sup_log' = Append(sup_log, "spawn")
        /\ UNCHANGED sup_exit
     \/ /\ IF SpawnFailedExits(-1)         \* malloc of the stack or clone failed
           THEN SupExit("EXIT_FAILURE")
           ELSE /\ sup_pc' = "enable_controllers"
                /\ UNCHANGED <<sup_exit, pipe_rd, pipe_wr>>
        /\ UNCHANGED <<sup_log, init_pc, init_status, child_ctx>>
  /\ UNCHANGED <<ctx, heap, pipe_bytes, sync_written, ping, cgVars, cg_procs, read_result,
                 init_steps, init_sys, init_failed, secVars, nsVars, waitVars>>

\* main going on to the write whatever configure_cgroups returned.
ConfigureFailedExits_never(ret) == FALSE

\* main.c:225: a non-zero return of configure_cgroups ends the Supervisor.
ConfigureFailedExits(ret) == ret # "success"

\* cgroups.c:292-322 returns; main.c:225-228 acts on it.
ConfigureReturns(ret, next) ==
  IF ret = "pending"
  THEN /\ sup_pc' = next
       /\ UNCHANGED <<cfg_ret, sup_exit, pipe_rd, pipe_wr>>
  ELSE /\ cfg_ret' = ret
       /\ IF ConfigureFailedExits(ret)
          THEN SupExit("EXIT_FAILURE")
          ELSE /\ sup_pc' = "write"
               /\ UNCHANGED <<sup_exit, pipe_rd, pipe_wr>>

\* The outcomes of open + write + close on a cgroup file (cgroups.c:60-88,
\* 190-224, 241-268): the write has taken effect unless open or write failed.
FileOutcomes == {"open_fail", "write_fail", "close_fail", "ok"}
Written(o) == o \in {"close_fail", "ok"}

\* The characters of the literal "+cpu +memory +pids\n" (cgroups.c:69).
ControllersLiteral ==
  <<"+", "c", "p", "u", " ", "+", "m", "e", "m", "o", "r", "y", " ",
    "+", "p", "i", "d", "s", "\n">>

\* A string literal is an array of its characters and a terminating NUL.
CArray(chars) == chars \o <<"NUL">>

ControllersArray == CArray(ControllersLiteral)

\* cgroups.c:69: the count given to write.
SubtreeWriteCount == 20

\* write(fd, buf, count) hands the first count bytes of buf to the file.
write(buf, count) == SubSeq(buf, 1, count)

\* cgroups.c:60, 145, 190, 241: the flags of every open of the driver
DriverOpenFlags == {"O_WRONLY", "O_CLOEXEC"}

\* A driver that returns after a failed write without calling close.
ClosesFd_notAfterFailedWrite(o) == o \in {"close_fail", "ok"}

\* cgroups.c:76, 82, 158, 164, 214, 220, 258, 264: close is called after a
\* failed write and after a successful one.  close releases the descriptor
\* even when it returns -1.
ClosesFd(o) == o \in {"write_fail", "close_fail", "ok"}

\* The descriptor one driver operation leaves on record: none when open
\* failed.
DriverFd(owner, file, o) ==
  IF o = "open_fail"
  THEN {}
  ELSE {[owner |-> owner, file |-> file, outcome |-> o,
         cloexec |-> "O_CLOEXEC" \in DriverOpenFlags, closed |-> ClosesFd(o)]}

\* cgroups.c:53-89, called at cgroups.c:293
enable_controllers ==
  /\ sup_pc = "enable_controllers"
  /\ \E o \in FileOutcomes :
       /\ ctrl_enabled' = Written(o)
       /\ subtree' = [outcome |-> o,
                      bytes |-> IF Written(o)
                                THEN write(ControllersArray, SubtreeWriteCount)
                                ELSE <<>>]
       /\ drv_fds' = drv_fds \cup DriverFd("sup", "cgroup.subtree_control", o)
       /\ sup_log' = Append(sup_log, "enable_controllers")
       /\ ConfigureReturns(IF o = "ok" THEN "pending" ELSE "failure", "make_cgroup_dir")
  /\ UNCHANGED <<ctx, heap, pipe_bytes, sync_written, ping, cg_dir, cg_files, cg_order, cg_written,
                 cg_procs, initVars, secVars, nsVars, waitVars>>

\* What mkdir answers: EEXIST for a name that exists; for one that does
\* not, success or any other errno.
MkdirOutcomes(exists) == IF exists THEN {"EEXIST"} ELSE {"created", "error"}

\* A mkdir check that takes every -1 for a failure.
MkdirFails_noTolerance(o) == o \in {"EEXIST", "error"}

\* cgroups.c:105, child.c:131: `== -1 && errno != EEXIST`
MkdirFails(o) == o = "error"

\* cgroups.c:103-119, called at cgroups.c:297: EEXIST is not a failure.
make_cgroup_dir ==
  /\ sup_pc = "make_cgroup_dir"
  /\ sup_log' = Append(sup_log, "make_cgroup_dir")
  /\ \E o \in MkdirOutcomes(cg_dir = "present") :
       /\ cg_dir' = IF o = "created" THEN "present" ELSE cg_dir
       /\ IF MkdirFails(o)
          THEN ConfigureReturns("failure", "none")
          ELSE ConfigureReturns("pending", LimitFiles[1])
  /\ UNCHANGED <<ctx, heap, pipe_bytes, sync_written, ping, ctrl_enabled, subtree, cg_files,
                 cg_order, cg_written, drv_fds,
                 cg_procs, initVars, secVars, nsVars, waitVars>>

\* cgroups.c:35
VALUE_MAX == 128

Min(a, b) == IF a < b THEN a ELSE b

Digit(d) == <<"0", "1", "2", "3", "4", "5", "6", "7", "8", "9">>[d + 1]

\* The decimal digits of a natural number.
RECURSIVE Decimal(_)
Decimal(n) == IF n < 10 THEN <<Digit(n)>> ELSE Append(Decimal(n \div 10), Digit(n % 10))

\* printf's %d
PrintfD(v) == IF v < 0 THEN <<"-">> \o Decimal(-v) ELSE Decimal(v)

\* snprintf(buf, size, ...): the string left in buf, at most size - 1
\* characters of the formatted text (a NUL follows them).
snprintf(size, text) == SubSeq(text, 1, Min(Len(text), size - 1))

\* strlen of the string snprintf left, when the NUL snprintf wrote counts.
strlen(str) == Len(str)

\* A set_limit_int that prints -1 like any other number.
IntLimitString_noMax(value) == snprintf(VALUE_MAX, PrintfD(value) \o <<"\n">>)

\* cgroups.c:196-206: value_str of set_limit_int
IntLimitString(value) ==
  IF value = -1
  THEN snprintf(VALUE_MAX, <<"m", "a", "x", "\n">>)
  ELSE snprintf(VALUE_MAX, PrintfD(value) \o <<"\n">>)

\* cgroups.c:252: value_str of set_limit_str has VALUE_MAX - 1 bytes
StrLimitBuffer == VALUE_MAX - 1

\* cgroups.c:253: snprintf is given the size VALUE_MAX
StrLimitString(value) == snprintf(VALUE_MAX, value \o <<"\n">>)

\* cgroups.c:252-253: the string and its NUL need more bytes than value_str
\* has; the NUL is stored past the end of the array.
StrLimitOverruns(value) == strlen(StrLimitString(value)) + 1 > StrLimitBuffer

\* What write is handed (cgroups.c:211, 255).  After an overrun the byte
\* past the array may or may not still be the NUL when strlen runs: the
\* string ends there or goes on into the neighbouring object.
LimitWrite(file, value) ==
  IF file = "cpu.max"
  THEN IF StrLimitOverruns(value)
       THEN {[bytes |-> StrLimitString(value), overrun |-> TRUE],
             [bytes |-> Append(StrLimitString(value), "stray byte"), overrun |-> TRUE]}
       ELSE {[bytes |-> write(StrLimitString(value), strlen(StrLimitString(value))),
              overrun |-> FALSE]}
  ELSE {[bytes |-> write(IntLimitString(value), strlen(IntLimitString(value))),
         overrun |-> FALSE]}

\* cgroups.c:186-269, called at cgroups.c:301-319: set_limit_str for
\* cpu.max, set_limit_int for the others.
set_limit(file) ==
  /\ sup_pc = file
  /\ \E o \in FileOutcomes :
       /\ IF Written(o)
          THEN /\ cg_files' = [cg_files EXCEPT ![file] = <<LimitValue(ctx, file)>>]
               /\ cg_order' = Append(cg_order, file)
               /\ \E w \in LimitWrite(file, LimitValue(ctx, file)) :
                    cg_written' = [cg_written EXCEPT ![file] = w]
          ELSE UNCHANGED <<cg_files, cg_order, cg_written>>
       /\ drv_fds' = drv_fds \cup DriverFd("sup", file, o)
       /\ sup_log' = Append(sup_log, file)
       /\ LET i == IndexOf(LimitFiles, file) IN
            ConfigureReturns(IF o # "ok" THEN "failure"
                             ELSE IF i = Len(LimitFiles) THEN "success"
                             ELSE "pending",
                             IF i < Len(LimitFiles) THEN LimitFiles[i + 1] ELSE "write")
  /\ UNCHANGED <<ctx, heap, pipe_bytes, sync_written, ping, ctrl_enabled, subtree, cg_dir,
                 cg_procs, initVars, secVars, nsVars, waitVars>>

set_limit_str == set_limit("cpu.max")
set_limit_int == \E f \in Range(LimitFiles) \ {"cpu.max"} : set_limit(f)

\* main.c:233-237: one byte.  A pipe nobody can read from answers a write
\* with SIGPIPE, whose default action ends the process; SIGPIPE is neither
\* ignored nor handled anywhere in main.c.
main_write_ping ==
  /\ sup_pc = "write"
  /\ IF pipe_rd = {}
     THEN /\ SupExit("SIGPIPE")
          /\ ping' = [ret |-> "SIGPIPE", readers |-> pipe_rd]
          /\ UNCHANGED <<pipe_bytes, sync_written, sup_log>>
     ELSE \E ok \in BOOLEAN :
            IF ok
            THEN /\ pipe_bytes' = pipe_bytes + 1
                 /\ sync_written' = sync_written + 1
                 /\ ping' = [ret |-> "ok", readers |-> pipe_rd]
                 /\ sup_pc' = "wait"
                 /\ sup_log' = Append(sup_log, "write")
                 /\ UNCHANGED <<sup_exit, pipe_rd, pipe_wr>>
            ELSE /\ SupExit("EXIT_FAILURE")
                 /\ ping' = [ret |-> "error", readers |-> pipe_rd]
                 /\ UNCHANGED <<pipe_bytes, sync_written, sup_log>>
  /\ UNCHANGED <<ctx, heap, cgVars, cg_procs, initVars, secVars, nsVars, waitVars>>

\* The status words waitpid can store, and what is in `status` when waitpid
\* fails and stores nothing (main.c:136 declares it without a value).
IndeterminateStatus ==
  {[kind |-> "exited", code |-> 0], [kind |-> "exited", code |-> 255],
   [kind |-> "signaled", code |-> SIGSYS], [kind |-> "stopped", code |-> 0]}

\* A report that adds the hint to every signal.
Report_hintAlways(st) ==
  (IF st.kind = "exited"
   THEN {[text |-> "Child exited normally", sig |-> 0]} ELSE {})
  \cup
  (IF st.kind = "signaled"
   THEN {[text |-> "Child killed by signal", sig |-> st.code],
         [text |-> "Likely seccomp violation.", sig |-> 0]}
   ELSE {})

\* main.c:147-165: the lines printed for a status word.
Report(st) ==
  (IF st.kind = "exited"
   THEN {[text |-> "Child exited normally", sig |-> 0]} ELSE {})
  \cup
  (IF st.kind = "signaled"
   THEN {[text |-> "Child killed by signal", sig |-> st.code]}
        \cup (IF st.code = SIGSYS
              THEN {[text |-> "Likely seccomp violation.", sig |-> 0]} ELSE {})
   ELSE {})

\* main.c:135-166, called at main.c:247: waitpid blocks until Init has
\* ended; its return value is not looked at.
wait_for_container ==
  /\ sup_pc = "wait"
  /\ init_status.kind \in {"exited", "signaled"}
  /\ \/ /\ wait_ret' = "pid"
        /\ wait_status' = init_status
     \/ /\ wait_ret' = "error"
        /\ wait_status' \in IndeterminateStatus
  /\ report' = Report(wait_status')
  /\ sup_pc' = "cleanup"
  /\ sup_log' = Append(sup_log, "wait")
  /\ UNCHANGED <<sup_exit, ctx, heap, pipeVars, cgVars, cg_procs, initVars, secVars,
                 nsVars>>

\* main.c:253-255: cleanup_ctx, exit(EXIT_SUCCESS)
main_cleanup ==
  /\ sup_pc = "cleanup"
  /\ ctx' = NoCtx
  /\ heap' = [heap EXCEPT !.cleanup_read = CleanupReads,
                          !.freed = CleanupFrees(Range(InitCtxAllocs))]
  /\ sup_log' = Append(sup_log, "cleanup")
  /\ SupExit("EXIT_SUCCESS")
  /\ UNCHANGED <<pipe_bytes, sync_written, ping, cgVars, cg_procs, initVars, secVars,
                 nsVars, waitVars>>

SupNext ==
  \/ main_pipe
  \/ main_init_ctx
  \/ spawn_container
  \/ enable_controllers
  \/ make_cgroup_dir
  \/ set_limit_str
  \/ set_limit_int
  \/ main_write_ping
  \/ wait_for_container
  \/ main_cleanup

----------------------------------------------------------------------------
(* Init: child_main, child.c:557-651 *)

ChildAfter(step) ==
  LET i == IndexOf(ChildOrder, step) IN
    IF i < Len(ChildOrder) THEN ChildOrder[i + 1] ELSE "target"

\* child_main returning 0 from a failed step.
child_fail_return_zero(step) == 0

\* child.c:567 and every later `return -1`: the value child_main returns
\* when the step fails.
child_fail_return(step) == -1

\* The clone child ends with exit(child_main's return value); the wait
\* status keeps its low eight bits.
ExitCode(ret) == ret % 256

\* Init ends: the kernel closes its descriptors.
ChildExit(step) ==
  /\ init_pc' = "exited"
  /\ init_failed' = step
  /\ init_status' = [kind |-> "exited", code |-> ExitCode(child_fail_return(step))]
  /\ pipe_rd' = pipe_rd \ {"init"}
  /\ pipe_wr' = pipe_wr \ {"init"}

\* A system call of Init: the function of child.c that issues it, the call
\* and what it is applied to.
Sys(fn, call, arg) == [fn |-> fn, call |-> call, arg |-> arg]

\* The system calls each function of child.c issues, in program order.
Calls(fn) ==
  CASE fn = "read" ->
         <<Sys(fn, "read", "pipe_fds[0]")>>                       \* child.c:565
    [] fn = "add_self_to_cgroup" ->                               \* cgroups.c:143-170
         <<Sys(fn, "open", "cgroup.procs"), Sys(fn, "write", "cgroup.procs"),
           Sys(fn, "close", "cgroup.procs")>>
    [] fn = "setup_uts_namespace" ->
         <<Sys(fn, "sethostname", "hostname")>>                   \* child.c:66
    [] fn = "setup_mount_propagation" ->
         <<Sys(fn, "mount", "private /")>>                        \* child.c:96
    [] fn = "setup_overlay" ->                                    \* child.c:131-233
         <<Sys(fn, "mkdir", "overlay_base"), Sys(fn, "mount", "tmpfs"),
           Sys(fn, "mkdir", "work"), Sys(fn, "mkdir", "upper"),
           Sys(fn, "mkdir", "merged"), Sys(fn, "mount", "overlay")>>
    [] fn = "setup_rootfs" ->                                     \* child.c:280-339
         <<Sys(fn, "mount", "bind rootfs"), Sys(fn, "mkdir", ".pivot_old"),
           Sys(fn, "pivot_root", "rootfs"), Sys(fn, "chdir", "/"),
           Sys(fn, "umount2", "/.pivot_old"), Sys(fn, "rmdir", "/.pivot_old")>>
    [] fn = "mount_dev" ->
         <<Sys(fn, "mount", "devtmpfs")>>                         \* child.c:363
    [] fn = "mount_proc" ->
         <<Sys(fn, "mount", "proc")>>                             \* child.c:390
    [] fn = "lock_capabilities" ->
         <<Sys(fn, "prctl", "PR_SET_NO_NEW_PRIVS")>>              \* child.c:490
    [] fn = "apply_seccomp" ->
         <<Sys(fn, "prctl", "PR_SET_SECCOMP")>>                   \* child.c:525
    [] fn = "execvp" ->
         <<Sys(fn, "execve", "cmd[0]")>>                          \* child.c:646

\* System calls a function issues on its way out after its n-th call
\* failed: add_self_to_cgroup closes the descriptor after a failed write
\* (cgroups.c:158).
ErrorPathCalls(fn, n, ok) ==
  IF fn = "add_self_to_cgroup" /\ n = 2 /\ ~ok
  THEN <<Sys(fn, "close", "cgroup.procs")>>
  ELSE <<>>

\* One call of child_main to `fn` whose n-th system call is the last one
\* of its straight path: it fails there (ok = FALSE) or it is the
\* function's last call and the function returns 0.  A failure is followed
\* by `return -1`.
ChildCall(fn, n, ok) ==
  /\ init_pc = fn
  /\ n \in 1..Len(Calls(fn))
  /\ ok => n = Len(Calls(fn))
  /\ init_steps' = Append(init_steps, fn)
  /\ init_sys' = init_sys \o SubSeq(Calls(fn), 1, n) \o ErrorPathCalls(fn, n, ok)
  /\ IF ok
     THEN /\ init_pc' = ChildAfter(fn)
          /\ UNCHANGED <<init_status, init_failed, pipe_rd, pipe_wr>>
     ELSE ChildExit(fn)

\* child_main going on whatever read returned.
ReadFailed_never(r) == FALSE

\* child.c:565: the check made on read's return value.
ReadFailed(r) == r = "fail"

\* A read that returns at once, as on a descriptor with O_NONBLOCK.
ReadReturns_nonblocking == TRUE

\* child.c:565: the descriptor is a blocking one (main.c:193 sets no
\* O_NONBLOCK), so read returns only with a byte or at end-of-file.
ReadReturns == pipe_bytes > 0 \/ pipe_wr = {}

\* child.c:565-568: the blocking read returns.  It delivers the byte when
\* one is in the pipe, and end-of-file when the pipe is empty and no process
\* holds the write end; otherwise it stays blocked.
child_read ==
  /\ init_pc = "read"
  /\ ReadReturns
  /\ read_result' = IF pipe_bytes > 0 THEN "byte" ELSE "eof"
  /\ pipe_bytes' = IF pipe_bytes > 0 THEN pipe_bytes - 1 ELSE pipe_bytes
  /\ ChildCall("read", 1, ~ReadFailed(read_result'))
  /\ UNCHANGED <<supVars, sync_written, ping, cgVars, cg_procs, child_ctx, secVars,
                 nsVars, waitVars>>

\* child.c:565-568: read returns -1.
child_read_fail ==
  /\ init_pc = "read"
  /\ read_result' = "fail"
  /\ ChildCall("read", 1, ~ReadFailed(read_result'))
  /\ UNCHANGED <<supVars, pipe_bytes, sync_written, ping, cgVars, cg_procs, child_ctx,
                 secVars, nsVars, waitVars>>

\* cgroups.c:143-170: which of open, write, close was the last call of the
\* straight path, and whether it succeeded.
ProcsOutcome(n, ok) ==
  CASE n = 1 -> "open_fail"
    [] n = 2 -> "write_fail"
    [] n = 3 -> IF ok THEN "ok" ELSE "close_fail"

\* cgroups.c:143-170, called at child.c:573
add_self_to_cgroup ==
  /\ \E n \in 1..3, ok \in BOOLEAN :
       /\ ChildCall("add_self_to_cgroup", n, ok)
       /\ cg_procs' = IF n = 3 THEN cg_procs \cup {"init"} ELSE cg_procs
       /\ drv_fds' = drv_fds \cup DriverFd("init", "cgroup.procs", ProcsOutcome(n, ok))
  /\ UNCHANGED <<supVars, pipe_bytes, sync_written, ping, ctrl_enabled, subtree, cg_dir,
                 cg_files, cg_order, cg_written, cfg_ret, child_ctx,
                 read_result, secVars, nsVars, waitVars>>

\* child.c:65-72, called at child.c:580
setup_uts_namespace ==
  /\ init_pc = "setup_uts_namespace"
  /\ \E ok \in BOOLEAN :
       /\ ChildCall("setup_uts_namespace", 1, ok)
       /\ uts_hostname' = IF ok THEN child_ctx.hostname ELSE uts_hostname
  /\ UNCHANGED <<supVars, pipe_bytes, sync_written, ping, cgVars, cg_procs, child_ctx,
                 read_result, secVars, mnt, overlay_heap, host, waitVars>>

\* child.c:95-102, called at child.c:587
setup_mount_propagation ==
  /\ \E ok \in BOOLEAN :
       /\ ChildCall("setup_mount_propagation", 1, ok)
       /\ mnt' = IF ok THEN [mnt EXCEPT !.propagation = "private"] ELSE mnt
  /\ UNCHANGED <<supVars, pipe_bytes, sync_written, ping, cgVars, cg_procs, child_ctx,
                 read_result, secVars, uts_hostname, overlay_heap, host, waitVars>>

\* child.c:163, 174: the sizes computed for the upper and the merged path
upper_len(base) == Len(base) + Len("/upper") + 1

merged_len(base) == Len(base) + Len("/merged") + 1

\* child.c:184: the merged path is printed into a buffer of merged_len
\* bytes with the size upper_len, one less than it needs: the last character
\* is cut.
MergedPath(base) == snprintf(upper_len(base), base \o "/merged")

\* A setup_overlay that leaves ctx->rootfs as init_ctx set it.
RootfsAfterOverlay_unchanged(c) == c.rootfs

\* child.c:239-244: ctx->rootfs becomes the path the overlay was mounted on.
RootfsAfterOverlay(c) == MergedPath(c.overlay_base)

\* Of n system calls issued in a row, the last one failing unless ok, the
\* number that succeeded.
Succeeded(n, ok) == IF ok THEN n ELSE n - 1

\* child.c:186-211: the directories made in the tmpfs that child.c:144
\* mounted, when the first k system calls of setup_overlay succeeded.  The
\* tmpfs is a new, empty file system at every mount.
OverlayDirsMade(k) ==
  (IF k >= 3 THEN {"work"} ELSE {}) \cup (IF k >= 4 THEN {"upper"} ELSE {})
    \cup (IF k >= 5 THEN {"merged"} ELSE {})

\* An overlay that is given the directory rootfs as its upper layer.
OverlayOpts_rootfsIsUpper(c) ==
  [lowerdir |-> c.overlay_base \o "/upper",
   upperdir |-> c.rootfs,
   workdir  |-> c.overlay_base \o "/work"]

\* child.c:161, 172, 227-228: "lowerdir=%s,upperdir=%s,workdir=%s" with
\* ctx->rootfs, overlay_upper and overlay_work
OverlayOpts(c) ==
  [lowerdir |-> c.rootfs,
   upperdir |-> c.overlay_base \o "/upper",
   workdir  |-> c.overlay_base \o "/work"]

\* The directory that stores a change made under `dir` in the mount
\* namespace m: the upper layer when an overlay is mounted at dir (the lower
\* layer is never written), dir itself otherwise.
StoredIn(m, dir) == IF m.overlay_at = dir THEN m.overlay_opts.upperdir ELSE dir

\* A change stored there is a change of the host's directory ROOTFS.
ChangesRootfs(stored) == stored \in {ROOTFS, "host /"}

\* child.c:129-253: the return statements of setup_overlay, in program
\* order.
OverlayExits == 12

\* The three path buffers (child.c:154, 164, 175).
PathBuffers == <<"overlay_work", "overlay_upper", "overlay_merged">>

\* child.c:235, 247, 251: what is freed after the overlay mount was tried
OverlayFreesLate == <<"overlay_merged">>

\* child.c:129-253: one return of setup_overlay.  n is the last system call
\* of the straight path that was issued, k the number of system calls that
\* succeeded, ok whether the function returned 0; allocated and freed are
\* the buffers malloc gave it and the ones it passed to free, in order.
OverlayExit(e) ==
  LET X(n, ok, k, allocated, freed, rf) ==
        [n |-> n, ok |-> ok, k |-> k, allocated |-> allocated, freed |-> freed,
         rootfs_freed |-> rf]
      all3 == Range(PathBuffers)
      all4 == all3 \cup {"mount_opts"}
  IN  CASE e = 1  -> X(1, FALSE, 0, {}, <<>>, FALSE)                     \* 134: mkdir base
        [] e = 2  -> X(2, FALSE, 1, {}, <<>>, FALSE)                     \* 146: mount tmpfs
        [] e = 3  -> X(2, FALSE, 2, {}, <<>>, FALSE)                     \* 159: malloc work
        [] e = 4  -> X(2, FALSE, 2, {"overlay_work"}, <<"overlay_work">>, FALSE)   \* 170
        [] e = 5  -> X(2, FALSE, 2, {"overlay_work", "overlay_upper"},
                       <<"overlay_work", "overlay_upper">>, FALSE)      \* 182
        [] e = 6  -> X(3, FALSE, 2, all3, PathBuffers, FALSE)            \* 192: mkdir work
        [] e = 7  -> X(4, FALSE, 3, all3, PathBuffers, FALSE)            \* 201: mkdir upper
        [] e = 8  -> X(5, FALSE, 4, all3, PathBuffers, FALSE)            \* 210: mkdir merged
        [] e = 9  -> X(5, FALSE, 5, all3, PathBuffers, FALSE)            \* 224: malloc opts
        [] e = 10 -> X(6, FALSE, 5, all4,
                       <<"overlay_work", "overlay_upper">> \o OverlayFreesLate, FALSE)  \* 236
        [] e = 11 -> X(6, FALSE, 6, all4,
                       <<"overlay_work", "overlay_upper">> \o OverlayFreesLate, TRUE)   \* 248
        [] e = 12 -> X(6, TRUE, 6, all4,
                       <<"overlay_work", "overlay_upper">> \o OverlayFreesLate, FALSE)  \* 252

\* child.c:129-253, called at child.c:595.  With a pointer that addresses no
\* string, mkdir answers EFAULT.  On success rootfs becomes the merged path;
\* when the last strdup fails rootfs has been freed and is NULL.
setup_overlay ==
  /\ init_pc = "setup_overlay"
  /\ \E e \in 1..OverlayExits :
       LET x  == OverlayExit(e)
           n  == x.n
           ok == x.ok
           k  == x.k
       IN
       /\ child_ctx.overlay_base = "unaddressable" => e = 1
       /\ ChildCall("setup_overlay", n, ok)
       /\ child_ctx' = [child_ctx EXCEPT !.rootfs =
                          IF ok THEN RootfsAfterOverlay(child_ctx)
                          ELSE IF x.rootfs_freed THEN "NULL" ELSE @]
       /\ overlay_heap' = [exit |-> e, allocated |-> x.allocated, freed |-> x.freed]
       /\ ctx' = IF SharesMemory /\ ctx # NoCtx THEN child_ctx' ELSE ctx
       /\ \E o \in MkdirOutcomes(child_ctx.overlay_base \in host.dirs) :
            /\ MkdirFails(o) <=> k = 0        \* child.c:131-135
            /\ host' = [host EXCEPT
                 !.dirs = IF o = "created" THEN @ \cup {child_ctx.overlay_base} ELSE @]
            /\ mnt' = [mnt EXCEPT
                 !.base_mkdir = o,
                 !.mounted = @ \o (IF k >= 2 THEN <<"tmpfs">> ELSE <<>>)
                               \o (IF k >= 6 THEN <<"overlay">> ELSE <<>>),
                 !.tmpfs_dirs = OverlayDirsMade(k),
                 !.overlay_opts = IF k >= 6 THEN OverlayOpts(child_ctx) ELSE @,
                 !.overlay_at = IF k >= 6 THEN MergedPath(child_ctx.overlay_base) ELSE @]
  /\ UNCHANGED <<sup_pc, sup_exit, sup_log, heap, pipe_bytes, sync_written, ping, cgVars, cg_procs,
                 read_result, secVars, uts_hostname, waitVars>>

\* limits.h, used at child.c:289-290
PATH_MAX == 4096

\* A pivot_root onto the lower directory the configuration names.
PivotRootArgs_lowerDir(c) ==
  [new_root |-> ROOTFS, put_old |-> snprintf(PATH_MAX, ROOTFS \o "/.pivot_old")]

\* child.c:289-312: the two arguments of pivot_root
PivotRootArgs(c) ==
  [new_root |-> c.rootfs, put_old |-> snprintf(PATH_MAX, c.rootfs \o "/.pivot_old")]

\* child.c:279-346, called at child.c:602
setup_rootfs ==
  /\ init_pc = "setup_rootfs"
  /\ \E n \in 1..6, ok \in BOOLEAN :
       /\ ChildCall("setup_rootfs", n, ok)
       /\ LET k == Succeeded(n, ok) IN
            /\ mnt' = [mnt EXCEPT
              !.mounted = IF k >= 1 THEN Append(@, "bind rootfs") ELSE @,
              !.pivot = IF n >= 3 THEN PivotRootArgs(child_ctx) ELSE @,
              !.root = IF k >= 3 THEN child_ctx.rootfs ELSE @,
              !.old_root = IF k >= 5 THEN "detached"
                           ELSE IF k >= 3 THEN "/.pivot_old" ELSE @,
              !.pivot_old_dir = IF k >= 6 THEN FALSE
                                ELSE IF k >= 2 THEN TRUE ELSE @]
            \* child.c:299 makes .pivot_old under rootfs unless it is there,
            \* child.c:339 removes it
            /\ LET changed == (k >= 2 /\ ~mnt.pivot_old_dir) \/ k >= 6 IN
                 host' = [host EXCEPT !.rootfs_changed =
                            @ \/ (changed /\ ChangesRootfs(StoredIn(mnt, child_ctx.rootfs)))]
  /\ UNCHANGED <<supVars, pipe_bytes, sync_written, ping, cgVars, cg_procs, child_ctx,
                 read_result, secVars, uts_hostname, overlay_heap, waitVars>>

\* child.c:362-369, called at child.c:609
mount_dev ==
  /\ \E ok \in BOOLEAN :
       /\ ChildCall("mount_dev", 1, ok)
       /\ mnt' = IF ok THEN [mnt EXCEPT !.mounted = Append(@, "devtmpfs")] ELSE mnt
  /\ UNCHANGED <<supVars, pipe_bytes, sync_written, ping, cgVars, cg_procs, child_ctx,
                 read_result, secVars, uts_hostname, overlay_heap, host, waitVars>>

\* child.c:389-396, called at child.c:616
mount_proc ==
  /\ \E ok \in BOOLEAN :
       /\ ChildCall("mount_proc", 1, ok)
       /\ mnt' = IF ok THEN [mnt EXCEPT !.mounted = Append(@, "proc")] ELSE mnt
  /\ UNCHANGED <<supVars, pipe_bytes, sync_written, ping, cgVars, cg_procs, child_ctx,
                 read_result, secVars, uts_hostname, overlay_heap, host, waitVars>>

\* child.c:429-442 (child_security.c:65-78): one turn of the loop over
\* cap = 0..CAP_LAST_CAP.  EINVAL is skipped, any other error returns -1.
\* A loop that gives up on any failed PR_CAPBSET_DROP.
PrctlFails_alsoOnEinval(o) == o # "ok"

\* child.c:426-433: the call returned -1 with an errno other than EINVAL
PrctlFails(o) == o = "error"

drop_capabilities_prctl ==
  /\ init_pc = "drop_capabilities"
  /\ cap <= LastCap
  /\ init_steps' = IF cap = 0 THEN Append(init_steps, "drop_capabilities") ELSE init_steps
  /\ init_sys' = Append(init_sys, Sys("drop_capabilities", "prctl", "PR_CAPBSET_DROP"))
  /\ \E o \in {"ok", "EINVAL", "error"} :
       /\ bounding' = IF o = "ok" THEN bounding \ {cap} ELSE bounding
       /\ cap_einval' = IF o = "EINVAL" THEN cap_einval \cup {cap} ELSE cap_einval
       /\ IF PrctlFails(o)
          THEN /\ ChildExit("drop_capabilities")
               /\ UNCHANGED cap
          ELSE /\ cap' = cap + 1
               /\ UNCHANGED <<init_pc, init_status, init_failed, pipe_rd, pipe_wr>>
  /\ UNCHANGED <<supVars, pipe_bytes, sync_written, ping, cgVars, cg_procs, child_ctx,
                 read_result, cap_sets, no_new_privs, seccomp_on, target_sys, nsVars,
                 waitVars>>

\* child.c:447-473 (child_security.c:83-109): capset with zeroed data, after
\* the loop has run to its end.
drop_capabilities_capset ==
  /\ init_pc = "drop_capabilities"
  /\ cap > LastCap
  /\ init_sys' = Append(init_sys, Sys("drop_capabilities", "capset", "zeroed data"))
  /\ \E ok \in BOOLEAN :
       IF ok
       THEN /\ cap_sets' = {}
            /\ init_pc' = ChildAfter("drop_capabilities")
            /\ UNCHANGED <<init_status, init_failed, pipe_rd, pipe_wr>>
       ELSE /\ ChildExit("drop_capabilities")
            /\ UNCHANGED cap_sets
  /\ UNCHANGED <<supVars, pipe_bytes, sync_written, ping, cgVars, cg_procs, child_ctx,
                 read_result, init_steps, cap, bounding, cap_einval, no_new_privs,
                 seccomp_on, target_sys, nsVars, waitVars>>

\* child.c:489-496, called at child.c:630
lock_capabilities ==
  /\ \E ok \in BOOLEAN :
       /\ ChildCall("lock_capabilities", 1, ok)
       /\ no_new_privs' = (ok \/ no_new_privs)
  /\ UNCHANGED <<supVars, pipe_bytes, sync_written, ping, cgVars, cg_procs, child_ctx,
                 read_result, cap, bounding, cap_einval, cap_sets, seccomp_on, target_sys,
                 nsVars, waitVars>>

\* child.c:524-531, called at child.c:637
apply_seccomp ==
  /\ \E ok \in BOOLEAN :
       /\ ChildCall("apply_seccomp", 1, ok)
       /\ seccomp_on' = (ok \/ seccomp_on)
  /\ UNCHANGED <<supVars, pipe_bytes, sync_written, ping, cgVars, cg_procs, child_ctx,
                 read_result, cap, bounding, cap_einval, cap_sets, no_new_privs, target_sys,
                 nsVars, waitVars>>

----------------------------------------------------------------------------
(* Seccomp filter program: filter.c *)

\* The values of the __NR_ names of <sys/syscall.h> (filter.c:37) on x86-64,
\* for the names filter.c uses and for some it leaves out.
NR ==
  [access |-> 21, faccessat |-> 269, chdir |-> 80, close |-> 3,
   dup |-> 32, dup2 |-> 33, dup3 |-> 292, fchmod |-> 91,
   fchmodat |-> 268, fchown |-> 93, fchownat |-> 260, fcntl |-> 72,
   fdatasync |-> 75, fstat |-> 5, fsync |-> 74, getcwd |-> 79,
   getdents64 |-> 217, lseek |-> 8, lstat |-> 6, mkdir |-> 83,
   mkdirat |-> 258, newfstatat |-> 262, open |-> 2, openat |-> 257,
   openat2 |-> 437, pipe |-> 22, poll |-> 7, pread64 |-> 17,
   pwrite64 |-> 18, read |-> 0, readlink |-> 89, readlinkat |-> 267,
   readv |-> 19, rename |-> 82, renameat |-> 264, renameat2 |-> 316,
   rmdir |-> 84, stat |-> 4, statx |-> 332, symlink |-> 88,
   symlinkat |-> 266, unlink |-> 87, unlinkat |-> 263, utimensat |-> 280,
   write |-> 1, writev |-> 20, arch_prctl |-> 158, clone |-> 56,
   execve |-> 59, execveat |-> 322, exit |-> 60, exit_group |-> 231,
   fork |-> 57, getpid |-> 39, getpgid |-> 121, getppid |-> 110,
   gettid |-> 186, getuid |-> 102, geteuid |-> 107, prctl |-> 157,
   setpgid |-> 109, wait4 |-> 61, waitid |-> 247, brk |-> 12,
   madvise |-> 28, mmap |-> 9, mprotect |-> 10, mremap |-> 25,
   munmap |-> 11, clock_gettime |-> 228, clock_nanosleep |-> 230, gettimeofday |-> 96,
   nanosleep |-> 35, time |-> 201, sched_yield |-> 24, rt_sigaction |-> 13,
   rt_sigprocmask |-> 14, rt_sigreturn |-> 15, sigaltstack |-> 131, tgkill |-> 234,
   tkill |-> 200, getrlimit |-> 97, prlimit64 |-> 302, setrlimit |-> 160,
   futex |-> 202, getrandom |-> 318, ioctl |-> 16, set_robust_list |-> 273,
   set_tid_address |-> 218, uname |-> 63, umask |-> 95, socket |-> 41,
   connect |-> 42, sendfile |-> 40, recvfrom |-> 45, chmod |-> 90,
   chown |-> 92, lchown |-> 94, keyctl |-> 250, getxattr |-> 191,
   lgetxattr |-> 192, fgetxattr |-> 193, mount |-> 165, ptrace |-> 101]

\* stands for the highest system call number a process can ask for
MaxSyscallNr == 450

SyscallNumbers == 0..MaxSyscallNr

\* The three kinds of instruction filter.c builds with BPF_STMT and BPF_JUMP.
LdNr == [code |-> "LD_W_ABS", k |-> "nr", jt |-> 0, jf |-> 0]
Jeq(k, jt, jf) == [code |-> "JMP_JEQ_K", k |-> k, jt |-> jt, jf |-> jf]
Ret(k) == [code |-> "RET_K", k |-> k, jt |-> 0, jf |-> 0]

\* An ALLOW that returns when the numbers differ.
ALLOW_swapped(syscall) == <<Jeq(syscall, 1, 0), Ret("ALLOW")>>

\* An ALLOW whose jump skips the return and the instruction after it.
ALLOW_longJump(syscall) == <<Jeq(syscall, 0, 2), Ret("ALLOW")>>

\* filter.c:57-59
ALLOW(syscall) == <<Jeq(syscall, 0, 1), Ret("ALLOW")>>

\* filter.c:72-232
filter ==
  <<LdNr>>
  \o ALLOW(NR.access) \o ALLOW(NR.faccessat) \o ALLOW(NR.chdir)
  \o ALLOW(NR.close) \o ALLOW(NR.dup) \o ALLOW(NR.dup2)
  \o ALLOW(NR.dup3) \o ALLOW(NR.fchmod) \o ALLOW(NR.fchmodat)
  \o ALLOW(NR.fchown) \o ALLOW(NR.fchownat) \o ALLOW(NR.fcntl)
  \o ALLOW(NR.fdatasync) \o ALLOW(NR.fstat) \o ALLOW(NR.fsync)
  \o ALLOW(NR.getcwd) \o ALLOW(NR.getdents64) \o ALLOW(NR.lseek)
  \o ALLOW(NR.lstat) \o ALLOW(NR.mkdir) \o ALLOW(NR.mkdirat)
  \o ALLOW(NR.newfstatat) \o ALLOW(NR.open) \o ALLOW(NR.openat)
  \o ALLOW(NR.openat2) \o ALLOW(NR.pipe) \o ALLOW(NR.poll)
  \o ALLOW(NR.pread64) \o ALLOW(NR.pwrite64) \o ALLOW(NR.read)
  \o ALLOW(NR.readlink) \o ALLOW(NR.readlinkat) \o ALLOW(NR.readv)
  \o ALLOW(NR.rename) \o ALLOW(NR.renameat) \o ALLOW(NR.renameat2)
  \o ALLOW(NR.rmdir) \o ALLOW(NR.stat) \o ALLOW(NR.statx)
  \o ALLOW(NR.symlink) \o ALLOW(NR.symlinkat) \o ALLOW(NR.unlink)
  \o ALLOW(NR.unlinkat) \o ALLOW(NR.utimensat) \o ALLOW(NR.write)
  \o ALLOW(NR.writev) \o ALLOW(NR.arch_prctl) \o ALLOW(NR.clone)
  \o ALLOW(NR.execve) \o ALLOW(NR.execveat) \o ALLOW(NR.exit)
  \o ALLOW(NR.exit_group) \o ALLOW(NR.fork) \o ALLOW(NR.getpid)
  \o ALLOW(NR.getpgid) \o ALLOW(NR.getppid) \o ALLOW(NR.gettid)
  \o ALLOW(NR.getuid) \o ALLOW(NR.geteuid) \o ALLOW(NR.prctl)
  \o ALLOW(NR.setpgid) \o ALLOW(NR.wait4) \o ALLOW(NR.waitid)
  \o ALLOW(NR.brk) \o ALLOW(NR.madvise) \o ALLOW(NR.mmap)
  \o ALLOW(NR.mprotect) \o ALLOW(NR.mremap) \o ALLOW(NR.munmap)
  \o ALLOW(NR.clock_gettime) \o ALLOW(NR.clock_nanosleep) \o ALLOW(NR.gettimeofday)
  \o ALLOW(NR.nanosleep) \o ALLOW(NR.time) \o ALLOW(NR.sched_yield)
  \o ALLOW(NR.rt_sigaction) \o ALLOW(NR.rt_sigprocmask) \o ALLOW(NR.rt_sigreturn)
  \o ALLOW(NR.sigaltstack) \o ALLOW(NR.tgkill) \o ALLOW(NR.tkill)
  \o ALLOW(NR.getrlimit) \o ALLOW(NR.prlimit64) \o ALLOW(NR.setrlimit)
  \o ALLOW(NR.futex) \o ALLOW(NR.getrandom) \o ALLOW(NR.ioctl)
  \o ALLOW(NR.set_robust_list) \o ALLOW(NR.set_tid_address) \o ALLOW(NR.uname)
  \o ALLOW(NR.umask)
  \o <<Ret("KILL_PROCESS")>>

\* filter.c:244-249
prog == [len |-> Len(filter), filter |-> filter]

\* filter.c:258
get_fprog == prog

\* The kernel running a classic BPF program on a seccomp_data: pc counts
\* from 0, a jump adds jt or jf to the pc of the next instruction.  The load
\* copies the 32-bit field nr, whose values here are 0..MaxSyscallNr.
RECURSIVE BpfRun(_, _, _, _)
BpfRun(p, data, pc, A) ==
  IF pc >= p.len
  THEN "past the end"
  ELSE LET ins == p.filter[pc + 1] IN
         CASE ins.code = "LD_W_ABS"  -> BpfRun(p, data, pc + 1, data[ins.k])
           [] ins.code = "JMP_JEQ_K" ->
                BpfRun(p, data, pc + 1 + (IF A = ins.k THEN ins.jt ELSE ins.jf), A)
           [] ins.code = "RET_K"     -> ins.k

\* The verdict of the installed filter on system call number n.
seccomp_run(n) == BpfRun(get_fprog, [nr |-> n], 0, 0)

FilterVerdict == [n \in SyscallNumbers |-> seccomp_run(n)]

\* A diagnostic sent to the system log, which connects a socket first.
ExecFailureCalls_syslog == <<NR.socket, NR.write, NR.exit>>

\* child.c:649-650: fprintf writes the diagnostic to the unbuffered stderr,
\* then child_main returns -1 and clone's child ends with exit.
ExecFailureCalls == <<NR.write, NR.exit>>

\* child.c:646-650: the system calls Init issues with the filter installed,
\* when exec succeeds (ok) and when it fails.
InitCallsAfterSeccomp(ok) == <<NR.execve>> \o (IF ok THEN <<>> ELSE ExecFailureCalls)

\* child.c:646-650: execvp replaces the process image, or returns and
\* child_main returns -1.  The installed filter is run on each of these
\* calls; one it does not allow ends Init with SIGSYS there.
execvp ==
  /\ \E ok \in BOOLEAN :
       IF \A n \in Range(InitCallsAfterSeccomp(ok)) : FilterVerdict[n] = "ALLOW"
       THEN ChildCall("execvp", 1, ok)
       ELSE /\ init_pc = "execvp"
            /\ init_steps' = Append(init_steps, "execvp")
            /\ init_sys' = init_sys \o Calls("execvp")
            /\ init_pc' = "exited"
            /\ init_failed' = "execvp"
            /\ init_status' = [kind |-> "signaled", code |-> SIGSYS]
            /\ pipe_rd' = pipe_rd \ {"init"}
            /\ pipe_wr' = pipe_wr \ {"init"}
  /\ UNCHANGED <<supVars, pipe_bytes, sync_written, ping, cgVars, cg_procs, child_ctx,
                 read_result, secVars, nsVars, waitVars>>

----------------------------------------------------------------------------
(* The target command *)

\* The ways the target command can end, as waitpid tells them apart
\* (main.c:147-165): an exit code, or a signal (SIGSYS from the filter's
\* KILL_PROCESS verdict, SIGKILL from the OOM killer).
TargetEnds ==
  {[kind |-> "exited", code |-> 0], [kind |-> "exited", code |-> 1],
   [kind |-> "signaled", code |-> SIGSYS], [kind |-> "signaled", code |-> 9]}

\* The process that child.c:646 turned into the target command ends.
target_terminates ==
  /\ init_pc = "target"
  /\ \E st \in TargetEnds : init_status' = st
  /\ init_pc' = "exited"
  /\ pipe_rd' = pipe_rd \ {"init"}
  /\ pipe_wr' = pipe_wr \ {"init"}
  /\ UNCHANGED <<supVars, pipe_bytes, sync_written, ping, cgVars, cg_procs, child_ctx,
                 read_result, init_steps, init_sys, init_failed, secVars,
                 nsVars, waitVars>>

\* The system calls of the whitelist that change a file or a directory.
FileWriteCalls ==
  {NR.write, NR.pwrite64, NR.writev, NR.open, NR.openat, NR.openat2, NR.mkdir,
   NR.mkdirat, NR.rename, NR.renameat, NR.renameat2, NR.rmdir, NR.symlink,
   NR.symlinkat, NR.unlink, NR.unlinkat, NR.utimensat, NR.fchmod, NR.fchmodat,
   NR.fchown, NR.fchownat}

\* Where the target's system call n leaves a change, if the filter lets it
\* through and it is one that writes: the target's files are the ones under
\* its root.
TargetWriteStoredIn(n) ==
  IF FilterVerdict[n] = "ALLOW" /\ n \in FileWriteCalls
  THEN StoredIn(mnt, mnt.root)
  ELSE "none"

\* The target asks for system call n.  The filter installed at child.c:525
\* stays in force across execve; the kernel runs it on the number and, on
\* SECCOMP_RET_KILL_PROCESS, ends the process as if by SIGSYS.
target_syscall ==
  /\ init_pc = "target"
  /\ seccomp_on
  /\ \E n \in SyscallNumbers :
       /\ target_sys' = [nr |-> n, verdict |-> FilterVerdict[n]]
       /\ host' = [host EXCEPT !.rootfs_changed = @ \/ ChangesRootfs(TargetWriteStoredIn(n))]
       /\ IF FilterVerdict[n] = "ALLOW"
          THEN UNCHANGED <<init_pc, init_status, pipe_rd, pipe_wr>>
          ELSE /\ init_pc' = "exited"
               /\ init_status' = [kind |-> "signaled", code |-> SIGSYS]
               /\ pipe_rd' = pipe_rd \ {"init"}
               /\ pipe_wr' = pipe_wr \ {"init"}
  /\ UNCHANGED <<supVars, pipe_bytes, sync_written, ping, cgVars, cg_procs, child_ctx,
                 read_result, init_steps, init_sys, init_failed, cap, bounding,
                 cap_einval, cap_sets, no_new_privs, seccomp_on, uts_hostname, mnt, overlay_heap,
                 waitVars>>

\* Every step of Init except a read that returns -1.
ChildProgress ==
  \/ child_read
  \/ add_self_to_cgroup
  \/ setup_uts_namespace
  \/ setup_mount_propagation
  \/ setup_overlay
  \/ setup_rootfs
  \/ mount_dev
  \/ mount_proc
  \/ drop_capabilities_prctl
  \/ drop_capabilities_capset
  \/ lock_capabilities
  \/ apply_seccomp
  \/ execvp
  \/ target_syscall
  \/ target_terminates

ChildNext ==
  \/ ChildProgress
  \/ child_read_fail

----------------------------------------------------------------------------
(* The two processes run concurrently. *)

Next == SupNext \/ ChildNext

Spec == Init /\ [][Next]_vars

\* Both processes are scheduled: a step that can be taken is taken.  A read
\* that fails is the environment's choice and is not forced.
FairSpec == Spec /\ WF_vars(SupNext) /\ WF_vars(ChildProgress)

----------------------------------------------------------------------------
(* One bring-up after the other *)

\* Number of runs of the program in a row.
MaxRuns == 2

\* Init got as far as the target command.
BroughtUp == "execvp" \in Range(init_steps) /\ init_failed = "none"

\* The program is started again (main.c:184) once the Supervisor has ended
\* and Init has ended or was never made.  The new processes start as the
\* first ones did; Init's mount namespace went away with Init, and with it
\* the tmpfs and everything mounted in it; the directories made on the host,
\* overlay_base and the cgroup directory, are still there.  The directory
\* ROOTFS may have been changed in between.
bring_up_again ==
  /\ sup_pc = "done"
  /\ init_pc \in {"unborn", "exited"}
  /\ host.run < MaxRuns
  /\ host' = [run |-> host.run + 1, dirs |-> host.dirs,
              left_cg |-> cg_dir = "present", prev_up |-> BroughtUp,
              rootfs_changed |-> host.rootfs_changed]
  /\ mnt' \in {NoMounts(e) : e \in BOOLEAN}
  /\ sup_pc' = "pipe"
  /\ sup_exit' = "none"
  /\ sup_log' = <<>>
  /\ ctx' = NoCtx
  /\ heap' = NoHeap
  /\ pipe_bytes' = 0
  /\ pipe_rd' = {}
  /\ pipe_wr' = {}
  /\ sync_written' = 0
  /\ ping' = [ret |-> "none", readers |-> {}]
  /\ ctrl_enabled' = FALSE
  /\ subtree' = [outcome |-> "none", bytes |-> <<>>]
  /\ cg_files' = [f \in Range(LimitFiles) |-> <<>>]
  /\ cg_order' = <<>>
  /\ cg_written' = [f \in Range(LimitFiles) |-> NothingWritten]
  /\ drv_fds' = {}
  /\ cg_procs' = {}
  /\ cfg_ret' = "none"
  /\ init_pc' = "unborn"
  /\ init_status' = [kind |-> "unborn", code |-> 0]
  /\ child_ctx' = NoCtx
  /\ read_result' = "none"
  /\ init_steps' = <<>>
  /\ init_sys' = <<>>
  /\ init_failed' = "none"
  /\ cap' = 0
  /\ bounding' = 0..LastCap
  /\ cap_einval' = {}
  /\ cap_sets' = {"effective", "permitted", "inheritable"}
  /\ no_new_privs' = FALSE
  /\ seccomp_on' = FALSE
  /\ target_sys' = [nr |-> -1, verdict |-> "none"]
  /\ uts_hostname' = "host"
  /\ overlay_heap' = NoOverlayHeap
  /\ wait_ret' = "none"
  /\ wait_status' = [kind |-> "unset", code |-> 0]
  /\ report' = {}
  /\ UNCHANGED cg_dir

\* Init's steps up to the start of the target command (child.c:565-646).
ChildBringUp ==
  \/ child_read
  \/ child_read_fail
  \/ add_self_to_cgroup
  \/ setup_uts_namespace
  \/ setup_mount_propagation
  \/ setup_overlay
  \/ setup_rootfs
  \/ mount_dev
  \/ mount_proc
  \/ drop_capabilities_prctl
  \/ drop_capabilities_capset
  \/ lock_capabilities
  \/ apply_seccomp
  \/ execvp

\* Runs in a row.  Of the target command only its end is followed here: what
\* it does in between leaves the host's directories as they are.
TwoRunNext == SupNext \/ ChildBringUp \/ target_terminates \/ bring_up_again

TwoRunSpec == Init /\ [][TwoRunNext]_vars

----------------------------------------------------------------------------
(* The limit writers over a range of configurations *)

\* Longest cpu_max string tried.
MaxCpuMaxLen == 129

\* A string of n characters.
Fill(n) == [i \in 1..n |-> "9"]

CpuMaxInputs ==
  {CPU_MAX, <<"m", "a", "x", " ", "1", "0", "0", "0", "0", "0">>}
    \cup {Fill(n) : n \in {0} \cup ((VALUE_MAX - 3)..MaxCpuMaxLen)}

IntLimitInputs == {-2147483647, -1, 0, MEM_HIGH, 2147483647}

\* The Supervisor about to write the first limit (cgroups.c:301), Init
\* blocked in read, for a container_ctx whose limits are any of the inputs.
LimitInit ==
  /\ sup_pc = LimitFiles[1]
  /\ sup_exit = "none"
  /\ sup_log = <<"pipe", "init_ctx", "spawn", "enable_controllers", "make_cgroup_dir">>
  /\ \E s \in CpuMaxInputs, mm \in IntLimitInputs, mh \in IntLimitInputs,
        ms \in IntLimitInputs, pm \in IntLimitInputs :
       ctx = [NewCtx("/stray/path", 64) EXCEPT !.cpu_max = s, !.mem_max = mm, !.mem_high = mh,
                                    !.mem_swap_max = ms, !.pids_max = pm]
  /\ heap = InitCtxSucceeds
  /\ pipe_bytes = 0
  /\ pipe_rd = {"init", "sup"}
  /\ pipe_wr = {"init", "sup"}
  /\ sync_written = 0
  /\ ping = [ret |-> "none", readers |-> {}]
  /\ ctrl_enabled = TRUE
  /\ subtree = [outcome |-> "ok", bytes |-> write(ControllersArray, SubtreeWriteCount)]
  /\ cg_dir = "present"
  /\ cg_files = [f \in Range(LimitFiles) |-> <<>>]
  /\ cg_order = <<>>
  /\ cg_written = [f \in Range(LimitFiles) |-> NothingWritten]
  /\ drv_fds = DriverFd("sup", "cgroup.subtree_control", "ok")
  /\ cg_procs = {}
  /\ cfg_ret = "none"
  /\ init_pc = ChildOrder[1]
  /\ init_status = [kind |-> "running", code |-> 0]
  /\ child_ctx = ctx
  /\ read_result = "none"
  /\ init_steps = <<>>
  /\ init_sys = <<>>
  /\ init_failed = "none"
  /\ cap = 0
  /\ bounding = 0..LastCap
  /\ cap_einval = {}
  /\ cap_sets = {"effective", "permitted", "inheritable"}
  /\ no_new_privs = FALSE
  /\ seccomp_on = FALSE
  /\ target_sys = [nr |-> -1, verdict |-> "none"]
  /\ uts_hostname = "host"
  /\ host = FirstRun
  /\ overlay_heap = NoOverlayHeap
  /\ mnt = NoMounts(FALSE)
  /\ wait_ret = "none"
  /\ wait_status = [kind |-> "unset", code |-> 0]
  /\ report = {}

LimitNext == set_limit_str \/ set_limit_int

LimitSpec == LimitInit /\ [][LimitNext]_vars

----------------------------------------------------------------------------
(* Claims *)

InitIssued(P(_)) == \E i \in 1..Len(init_sys) : P(init_sys[i])

OnCgroupProcs(c) == c.arg = "cgroup.procs"
IsBringUp(c) == c.fn # "read"
IsExecve(c) == c.call = "execve"

AllLimitsWritten == \A f \in Range(LimitFiles) : cg_files[f] # <<>>

\* C1: Init opens and writes /sys/fs/cgroup/euclid/cgroup.procs only after
\* configure_cgroups has returned success in the Supervisor: the controllers
\* were enabled, the euclid directory exists and the five limit files have
\* been written.
C1_JoinOnlyAfterConfigure ==
  InitIssued(OnCgroupProcs) =>
    /\ cfg_ret = "success"
    /\ ctrl_enabled
    /\ cg_dir = "present"
    /\ AllLimitsWritten

C1_Witness == "init" \in cg_procs /\ cfg_ret = "success"

\* C2: every step in which Init issues a system call other than the pipe
\* read (cgroup join, sethostname, mkdir, mount, pivot_root, capability
\* drop, no-new-privs, seccomp, exec) starts in a state where the Supervisor
\* has already written the sync byte.
C2_NoBringUpBeforeSyncByte ==
  [][(Len(init_sys') > Len(init_sys) /\ IsBringUp(init_sys'[Len(init_sys')]))
       => sync_written >= 1]_vars

C2_Witness == InitIssued(IsExecve) /\ sync_written = 1

\* C3 as stated: when the Supervisor has ended it has written at most one
\* byte, exactly one if configure_cgroups succeeded and none if it did not,
\* and a byte is written only after the last limit file.
C3_Original ==
  /\ sync_written <= 1
  /\ sync_written >= 1 => cg_order = LimitFiles
  /\ sup_pc = "done" =>
       /\ cfg_ret = "success" => sync_written = 1
       /\ cfg_ret # "success" => sync_written = 0

\* C3 amended: at most one byte, written only after configure_cgroups
\* returned success and every limit file was written; when the Supervisor
\* has ended, exactly one byte if configure_cgroups succeeded and the write
\* itself did not fail, and none if pipe creation, init_ctx, the spawn,
\* configure_cgroups or the write failed.
C3_AtMostOneByteAfterLimits ==
  /\ sync_written <= 1
  /\ sync_written >= 1 => cfg_ret = "success" /\ cg_order = LimitFiles
  /\ sup_pc = "done" =>
       /\ (cfg_ret = "success" /\ ping.ret = "ok") => sync_written = 1
       /\ (cfg_ret # "success" \/ ping.ret # "ok") => sync_written = 0

C3_Witness ==
  sup_pc = "done" /\ cfg_ret = "success" /\ ping.ret = "ok" /\ sync_written = 1

\* C4: when Init's read delivers no byte (it returns -1, or 0 at
\* end-of-file), Init has issued no system call but the read, has not joined
\* the cgroup and ends with a non-zero exit code.
C4_NoByteMeansAbort ==
  read_result \in {"fail", "eof"} =>
    /\ init_pc = "exited"
    /\ init_status.kind = "exited"
    /\ init_status.code # 0
    /\ Len(init_sys) = 1
    /\ cg_procs = {}

C4_Witness == read_result = "fail" /\ init_pc = "exited" /\ init_status.code # 0

\* C5 as stated: once the Supervisor has ended without writing the byte
\* while Init is at its read, Init eventually ends, and does so without
\* having joined the cgroup.
C5_InitEndsAfterSupervisorDied ==
  (sup_pc = "done" /\ sync_written = 0 /\ init_pc = "read")
    ~> (init_pc = "exited" /\ cg_procs = {})

InitEndedUnread == init_pc = "exited" /\ read_result # "byte"

\* C6: when Init has ended without reading the byte, the Supervisor's write
\* meets a pipe that still has a reader, so it raises no SIGPIPE; a write
\* that returned 1 is followed by wait_for_container, whose waitpid can
\* return, and the report printed from the status waitpid stored is the one
\* of Init's exit.
C6_WriteSurvivesInitsEarlyExit ==
  InitEndedUnread =>
    /\ sup_exit # "SIGPIPE"
    /\ ping.ret # "SIGPIPE"
    /\ sup_pc = "write" => pipe_rd # {}
    /\ ping.ret = "ok" =>
         /\ sup_pc \in {"wait", "cleanup", "done"}
         /\ sup_pc = "wait" => ENABLED wait_for_container
         /\ sup_pc # "wait" => "wait" \in Range(sup_log)
         /\ wait_ret = "pid" =>
              /\ wait_status = init_status
              /\ report = {[text |-> "Child exited normally", sig |-> 0]}

C6_Witness ==
  /\ InitEndedUnread
  /\ ping = [ret |-> "ok", readers |-> {"sup"}]
  /\ wait_ret = "pid"
  /\ sup_exit = "EXIT_SUCCESS"

\* C7: when Init has called execvp, child_main has made exactly these calls,
\* each once: the read (which delivered the byte), the cgroup join, the
\* hostname, the mount propagation, the overlay, the pivot, the two mounts
\* of /dev and /proc, the capability drop, no-new-privs, seccomp, exec.
C7_StepsInOrderOnce ==
  "execvp" \in Range(init_steps) =>
    /\ read_result = "byte"
    /\ Len(init_steps) = 12
    /\ SubSeq(init_steps, 1, 6) =
         <<"read", "add_self_to_cgroup", "setup_uts_namespace",
           "setup_mount_propagation", "setup_overlay", "setup_rootfs">>
    /\ {init_steps[7], init_steps[8]} = {"mount_dev", "mount_proc"}
    /\ SubSeq(init_steps, 9, 12) =
         <<"drop_capabilities", "lock_capabilities", "apply_seccomp", "execvp">>

C7_Witness == init_pc = "target" /\ Len(init_steps) = 12

\* C8: when a step of child_main has failed, it is the last step Init
\* made, an execve was issued only if that step is the failed exec itself,
\* and Init has ended by a normal exit with a non-zero code, which is the
\* status a successful waitpid of the Supervisor stores.
C8_FailureEndsInit ==
  init_failed # "none" =>
    /\ init_pc = "exited"
    /\ init_steps[Len(init_steps)] = init_failed
    /\ \A i \in 1..Len(init_sys) :
         IsExecve(init_sys[i]) => i = Len(init_sys) /\ init_failed = "execvp"
    /\ init_status.kind = "exited"
    /\ init_status.code # 0
    /\ wait_ret = "pid" => wait_status.kind = "exited" /\ wait_status.code # 0

C8_Witness ==
  /\ init_failed = "execvp"
  /\ wait_ret = "pid"
  /\ wait_status.kind = "exited"
  /\ wait_status.code # 0

IsSeccomp(c) == c.arg = "PR_SET_SECCOMP"

\* C9: when Init is about to install, or has installed, the seccomp filter,
\* no-new-privs is set, every capability 0..LastCap is out of the bounding
\* set or its drop returned EINVAL, and the effective, permitted and
\* inheritable sets are empty.
C9_LockedDownAtSeccomp ==
  (init_pc = "apply_seccomp" \/ InitIssued(IsSeccomp) \/ seccomp_on) =>
    /\ no_new_privs
    /\ \A c \in 0..LastCap : c \notin bounding \/ c \in cap_einval
    /\ cap_sets = {}

C9_Witness == seccomp_on /\ cap_einval # {} /\ bounding # {}

\* Position of a system call in the lockdown; 0 for a call that is not part
\* of it.
LockdownRank(c) ==
  CASE c.arg = "PR_CAPBSET_DROP"      -> 1
    [] c.call = "capset"              -> 2
    [] c.arg = "PR_SET_NO_NEW_PRIVS"  -> 3
    [] c.arg = "PR_SET_SECCOMP"       -> 4
    [] c.call = "execve"              -> 5
    [] OTHER                          -> 0

IsOtherMountOrPivot(c) ==
  \/ c.call = "mount" /\ c.arg # "private /"
  \/ c.call = "pivot_root"

\* C11: when Init has issued any mount other than the remount of / (tmpfs,
\* overlay, bind of rootfs, devtmpfs, proc) or a pivot_root, or has made
\* such a mount or changed its root, the recursive private remount of / has
\* already succeeded.
C11_PrivateBeforeAnyMount ==
  (InitIssued(IsOtherMountOrPivot) \/ mnt.mounted # <<>> \/ mnt.root # "host /")
    => mnt.propagation = "private"

C11_Witness ==
  /\ mnt.propagation = "private"
  /\ {"tmpfs", "overlay", "bind rootfs", "devtmpfs", "proc"} \subseteq Range(mnt.mounted)
  /\ mnt.root # "host /"

\* C12: when Init has reached its exec, its root is the directory the
\* overlay was mounted on, the old root is detached (no longer mounted at
\* /.pivot_old), and the new root has no entry .pivot_old.
C12_RootIsOverlayOldRootGone ==
  "execvp" \in Range(init_steps) =>
    /\ mnt.overlay_at # "none"
    /\ mnt.root = mnt.overlay_at
    /\ mnt.old_root = "detached"
    /\ ~mnt.pivot_old_dir

C12_Witness ==
  /\ init_pc = "target"
  /\ mnt.root = MergedPath("/stray/path")
  /\ mnt.old_root = "detached"
  /\ ~mnt.pivot_old_dir

\* The numbers the filter array compares the accumulator with, one per
\* ALLOW(...).
ListedWithALLOW ==
  {filter[i].k : i \in {j \in 1..Len(filter) : filter[j].code = "JMP_JEQ_K"}}

\* C13: whatever system call number the filter has been run on, its
\* verdict is ALLOW if the number is one listed with ALLOW(...) in filter,
\* and KILL_PROCESS if it is any other number.
C13_AllowIffListed ==
  target_sys.verdict # "none" =>
    /\ target_sys.nr \in ListedWithALLOW => target_sys.verdict = "ALLOW"
    /\ target_sys.nr \notin ListedWithALLOW => target_sys.verdict = "KILL_PROCESS"

C13_Witness ==
  /\ target_sys = [nr |-> NR.umask, verdict |-> "ALLOW"]
  /\ init_pc = "target"

\* C14 as stated: the filter's verdict on socket, connect, sendfile and
\* recvfrom is ALLOW.
C14_NetworkCallsAllowed ==
  (target_sys.verdict # "none"
   /\ target_sys.nr \in {NR.socket, NR.connect, NR.sendfile, NR.recvfrom})
    => target_sys.verdict = "ALLOW"

\* The system calls named in the whitelist categories: file and directory
\* I/O, process management, memory, time and scheduling, signals, resource
\* limits, miscellaneous.
NamedInWhitelist ==
  {NR.open, NR.openat, NR.openat2, NR.read, NR.write, NR.close,
   NR.dup, NR.dup2, NR.dup3,
   NR.chmod, NR.fchmod, NR.fchmodat, NR.chown, NR.fchown, NR.fchownat,
   NR.rename, NR.unlink, NR.mkdir, NR.rmdir, NR.symlink, NR.readlink,
   NR.clone, NR.fork, NR.execve, NR.execveat, NR.exit, NR.exit_group,
   NR.wait4, NR.waitid, NR.prctl, NR.futex, NR.pipe,
   NR.brk, NR.mmap, NR.mprotect, NR.mremap, NR.munmap, NR.madvise,
   NR.clock_gettime, NR.clock_nanosleep, NR.gettimeofday, NR.nanosleep,
   NR.time, NR.sched_yield,
   NR.rt_sigaction, NR.rt_sigprocmask, NR.rt_sigreturn, NR.sigaltstack,
   NR.tgkill, NR.tkill,
   NR.getrlimit, NR.setrlimit, NR.prlimit64}

\* C15 as stated: the filter's verdict on every system call named in the
\* whitelist categories is ALLOW.
C15_NamedCallsAllowed ==
  (target_sys.verdict # "none" /\ target_sys.nr \in NamedInWhitelist)
    => target_sys.verdict = "ALLOW"

SeccompHint == [text |-> "Likely seccomp violation.", sig |-> 0]

\* C16: when the status word wait_for_container decodes says Init was ended
\* by a signal, the report has the line with that signal's number (and the
\* name strsignal gives it) and no line of a normal exit, and it has the
\* seccomp hint if and only if the signal is SIGSYS; a status of another
\* kind gets no hint.  A target the filter answered with KILL_PROCESS has
\* ended by SIGSYS, and once waitpid has handed over that status the report
\* is the SIGSYS line with the hint.
C16_SignalReportAndHint ==
  /\ wait_ret # "none" =>
       /\ wait_status.kind = "signaled" =>
            /\ [text |-> "Child killed by signal", sig |-> wait_status.code] \in report
            /\ \A l \in report : l.text # "Child exited normally"
            /\ \A l \in report : l.text = "Child killed by signal" => l.sig = wait_status.code
            /\ SeccompHint \in report <=> wait_status.code = SIGSYS
       /\ wait_status.kind # "signaled" => SeccompHint \notin report
  /\ (wait_ret = "pid" /\ init_status.kind = "signaled") => wait_status = init_status
  /\ target_sys.verdict = "KILL_PROCESS" =>
       /\ init_status = [kind |-> "signaled", code |-> SIGSYS]
       /\ wait_ret = "pid" =>
            report = {[text |-> "Child killed by signal", sig |-> SIGSYS], SeccompHint}

C16_Witness ==
  /\ target_sys = [nr |-> NR.keyctl, verdict |-> "KILL_PROCESS"]
  /\ wait_ret = "pid"
  /\ SeccompHint \in report

C16_WitnessOtherSignal ==
  /\ wait_ret = "pid"
  /\ wait_status = [kind |-> "signaled", code |-> 9]
  /\ SeccompHint \notin report

\* The codes of a normal exit: the low eight bits of the exit status.
ExitCodes == 0..255

\* C17 as stated: when waitpid has stored the status of an Init that exited
\* normally, the report tells its exit code: no normal exit with another
\* code would have produced the same report.
C17_ReportCarriesExitCode ==
  (wait_ret = "pid" /\ wait_status.kind = "exited") =>
    \A c \in ExitCodes :
      Report([kind |-> "exited", code |-> c]) = report => c = wait_status.code

IsPrefix(a, b) == Len(a) <= Len(b) /\ a = SubSeq(b, 1, Len(a))

IsConfigureStep(x) ==
  x \in {"enable_controllers", "make_cgroup_dir", "cpu.max", "memory.max",
         "memory.high", "memory.swap.max", "pids.max"}

\* The steps configure_cgroups has made so far, in order.
ConfigureSteps == SelectSeq(sup_log, IsConfigureStep)

\* C18: the steps of configure_cgroups are an initial part of: enable
\* controllers, mkdir, cpu.max, memory.max, memory.high, memory.swap.max,
\* pids.max.  Every limit file attempted before the last attempted one has
\* been written; when configure_cgroups has failed, the Supervisor has made
\* no step after the failing one, so no later file was opened or written;
\* and every file that was written still holds the value written, after a
\* failure too.
C18_ConfigureOrderFailFast ==
  LET Order == <<"enable_controllers", "make_cgroup_dir", "cpu.max", "memory.max",
                 "memory.high", "memory.swap.max", "pids.max">>
      Limits == <<"cpu.max", "memory.max", "memory.high", "memory.swap.max",
                  "pids.max">>
      attempted == Len(ConfigureSteps) - 2
  IN /\ IsPrefix(ConfigureSteps, Order)
     /\ IsPrefix(cg_order, Limits)
     /\ attempted >= 1 => Len(cg_order) \in {attempted - 1, attempted}
     /\ attempted < 1 => cg_order = <<>>
     /\ \A i \in 1..Len(Limits) :
          cg_files[Limits[i]] = IF i <= Len(cg_order)
                                THEN <<LimitValue(NewCtx("", 0), Limits[i])>> ELSE <<>>
     /\ cfg_ret = "failure" =>
          /\ sup_pc = "done"
          /\ sup_log # <<>>
          /\ IsConfigureStep(sup_log[Len(sup_log)])
     /\ cfg_ret = "success" => cg_order = Limits

C18_Witness ==
  /\ cfg_ret = "failure"
  /\ sup_pc = "done"
  /\ cg_order = <<"cpu.max", "memory.max">>
  /\ sup_log[Len(sup_log)] = "memory.high"
  /\ cg_files["memory.max"] = <<MEM_MAX>>
  /\ cg_files["memory.high"] = <<>>

\* C19 as stated: when the write to cgroup.subtree_control failed and
\* configure_cgroups has returned failure, it was a later step that failed,
\* not enable_controllers.
C19_SubtreeWriteIsBestEffort ==
  (subtree.outcome = "write_fail" /\ cfg_ret = "failure")
    => sup_log[Len(sup_log)] # "enable_controllers"

\* C20 as stated: the bytes written to cgroup.subtree_control are the 19
\* characters of "+cpu +memory +pids\n" and nothing else.
C20_SubtreeBytesExact ==
  subtree.bytes # <<>> =>
    /\ Len(subtree.bytes) = 19
    /\ subtree.bytes = ControllersLiteral

\* The value a decimal numeral denotes.
DigitValue(ch) == CHOOSE d \in 0..9 : Digit(d) = ch

RECURSIVE NumeralValue(_)
NumeralValue(ds) ==
  IF ds = <<>> THEN 0
  ELSE 10 * NumeralValue(SubSeq(ds, 1, Len(ds) - 1)) + DigitValue(ds[Len(ds)])

IsNumeral(ds) ==
  /\ ds # <<>>
  /\ \A i \in 1..Len(ds) : \E d \in 0..9 : ds[i] = Digit(d)
  /\ Len(ds) > 1 => ds[1] # "0"

\* text is v in decimal: a minus sign when v is negative, then the digits
\* of its magnitude without leading zeros.
IsDecimalOf(text, v) ==
  IF v < 0
  THEN /\ Len(text) > 1
       /\ text[1] = "-"
       /\ IsNumeral(Tail(text))
       /\ NumeralValue(Tail(text)) = -v
  ELSE /\ IsNumeral(text)
       /\ NumeralValue(text) = v

IntLimitFiles == Range(LimitFiles) \ {"cpu.max"}

\* C21: whatever integer a limit is configured to, the bytes written to
\* memory.max, memory.high, memory.swap.max and pids.max are "max\n" when
\* the value is -1 and otherwise the value in decimal followed by one
\* newline.
C21_IntLimitBytes ==
  \A f \in IntLimitFiles :
    cg_written[f] # NothingWritten =>
      LET v == LimitValue(ctx, f)
          b == cg_written[f].bytes
      IN  IF v = -1
          THEN b = <<"m", "a", "x", "\n">>
          ELSE /\ Len(b) > 1
               /\ b[Len(b)] = "\n"
               /\ IsDecimalOf(SubSeq(b, 1, Len(b) - 1), v)

\* all four integer limits written, one unlimited, one negative, one large
C21_Witness ==
  /\ \A f \in IntLimitFiles : cg_written[f] # NothingWritten
  /\ ctx.mem_max = -1
  /\ ctx.mem_high = 2147483647
  /\ ctx.mem_swap_max = -2147483647
  /\ ctx.pids_max = 0
  /\ cg_written["memory.high"].bytes
       = <<"2", "1", "4", "7", "4", "8", "3", "6", "4", "7", "\n">>

\* C22 as stated: whatever the cpu_max string, the bytes written to
\* cpu.max are the string followed by one newline, and value_str is not
\* written past its end.
C22_CpuMaxWrittenWhole ==
  cg_written["cpu.max"] # NothingWritten =>
    /\ cg_written["cpu.max"].bytes = ctx.cpu_max \o <<"\n">>
    /\ ~cg_written["cpu.max"].overrun

IsDigits(ds) ==
  /\ ds # <<>>
  /\ \A i \in 1..Len(ds) : \E d \in 0..9 : ds[i] = Digit(d)

\* "<quota or max> <period>": digits or the word max, one space, digits.
IsCpuMaxLiteral(s) ==
  \E k \in 1..Len(s) :
    /\ s[k] = " "
    /\ LET quota  == SubSeq(s, 1, k - 1)
           period == SubSeq(s, k + 1, Len(s))
       IN  /\ quota = <<"m", "a", "x">> \/ IsDigits(quota)
           /\ IsDigits(period)

\* C23 as stated: the cpu_max of the container_ctx that init_ctx returned
\* is a number or the word max, one space, a number, and nothing else.
C23_CpuMaxIsLiteral ==
  "cpu_max" \in DOMAIN ctx => IsCpuMaxLiteral(ctx.cpu_max)

\* C24: whenever an operation of the cgroup driver has returned, every
\* descriptor it opened was opened close-on-exec and close has been called
\* on it, on the success path and on the error paths alike.
C24_DriverFdsCloexecAndClosed ==
  \A fd \in drv_fds : fd.cloexec /\ fd.closed

\* the Supervisor wrote every file and Init's write to cgroup.procs failed
C24_Witness ==
  /\ cfg_ret = "success"
  /\ init_failed = "add_self_to_cgroup"
  /\ \E fd \in drv_fds : fd.owner = "init" /\ fd.outcome = "write_fail"
  /\ \E fd \in drv_fds : fd.file = "cgroup.subtree_control"
  /\ \A f \in Range(LimitFiles) : \E fd \in drv_fds : fd.file = f /\ fd.outcome = "ok"

\* The container_ctx fields a step of the Supervisor reads.
SupFieldsRead(step) ==
  CASE step = "cpu.max"         -> {"cpu_max"}          \* cgroups.c:301
    [] step = "memory.max"      -> {"mem_max"}          \* cgroups.c:305
    [] step = "memory.high"     -> {"mem_high"}         \* cgroups.c:309
    [] step = "memory.swap.max" -> {"mem_swap_max"}     \* cgroups.c:313
    [] step = "pids.max"        -> {"pids_max"}         \* cgroups.c:317
    [] step = "write"           -> {"pipe_fds"}         \* main.c:234
    [] step = "cleanup"         -> CleanupReads         \* main.c:253
    [] OTHER                    -> {}

\* The container_ctx fields whose value a system call of Init is built from.
InitFieldsRead(sys) ==
  CASE sys.call = "read"                                   -> {"pipe_fds"}      \* child.c:565
    [] sys.call = "sethostname"                            -> {"hostname"}      \* child.c:66
    [] sys.call = "mkdir" /\ sys.arg = "overlay_base"      -> {"overlay_base"}  \* child.c:131
    [] sys.call = "mount" /\ sys.arg = "tmpfs"             -> {"overlay_base", "tmpfs_size"}
    [] sys.call = "mkdir" /\ sys.arg \in {"work", "upper", "merged"}
                                                           -> {"overlay_base"}
    [] sys.call = "mount" /\ sys.arg = "overlay"           -> {"overlay_base", "rootfs"}
    [] sys.call = "mount" /\ sys.arg = "bind rootfs"       -> {"rootfs"}        \* child.c:280
    [] sys.call = "mkdir" /\ sys.arg = ".pivot_old"        -> {"rootfs"}        \* child.c:290
    [] sys.call = "pivot_root"                             -> {"rootfs"}        \* child.c:312
    [] sys.call = "execve"                                 -> {"cmd", "cmd[0]"} \* child.c:646
    [] OTHER                                               -> {}

\* Every field that has been read so far by either process.
FieldsRead ==
  UNION ({SupFieldsRead(sup_log[i]) : i \in 1..Len(sup_log)}
           \cup {InitFieldsRead(init_sys[i]) : i \in 1..Len(init_sys)})

\* C25 as stated: once init_ctx has returned a container_ctx, every field
\* the Supervisor or Init has read, overlay_base and tmpfs_size included,
\* is one that init_ctx assigned.
C25_FieldsReadWereAssigned ==
  heap.ret = "ctx" => FieldsRead \subseteq heap.assigned

\* C26 as stated: when init_ctx failed partway, cleanup_ctx has read only
\* fields that were assigned, and has freed no block twice.
C26_CleanupAfterPartialInit ==
  heap.ret = "NULL" =>
    /\ heap.cleanup_read \subseteq heap.assigned
    /\ \A i, j \in 1..Len(heap.freed) : heap.freed[i] = heap.freed[j] => i = j

\* C27: in a run that follows another one, an overlay_base directory and a
\* cgroup directory that the earlier run left behind (mkdir answers EEXIST)
\* make neither make_cgroup_dir nor setup_overlay fail, and when
\* setup_overlay has returned 0 the directories work, upper and merged are
\* the ones made in the tmpfs this run mounted.
C27_SecondBringUpTolerant ==
  host.run > 1 =>
    /\ host.left_cg =>
         ~(cfg_ret = "failure" /\ sup_log[Len(sup_log)] = "make_cgroup_dir")
    /\ (mnt.base_mkdir = "EEXIST" /\ init_failed = "setup_overlay") =>
         InitIssued(LAMBDA c : c.call = "mount" /\ c.arg = "tmpfs")
    /\ ("setup_overlay" \in Range(init_steps) /\ init_failed # "setup_overlay") =>
         /\ mnt.tmpfs_dirs = {"work", "upper", "merged"}
         /\ mnt.base_mkdir \in {"created", "EEXIST"}

\* both runs got to the target; the second found both directories in place
C27_Witness ==
  /\ host.run = 2
  /\ host.prev_up
  /\ host.left_cg /\ "make_cgroup_dir" \in Range(sup_log)
  /\ child_ctx.overlay_base \in host.dirs /\ mnt.base_mkdir = "EEXIST"
  /\ cfg_ret = "success"
  /\ BroughtUp

\* C28 as stated, for the wait: when waitpid failed, the Supervisor does
\* not go on as if it had succeeded; it ends reporting failure and prints no
\* verdict about Init.
C28_FailedWaitIsReported ==
  (wait_ret = "error" /\ sup_pc = "done") =>
    /\ sup_exit = "EXIT_FAILURE"
    /\ report = {}

\* C29: nothing Init or the target command does changes the host's
\* directory ROOTFS: once Init is brought up, ROOTFS is the overlay's lower
\* layer, every change made under Init's root is stored in the upper layer
\* on the tmpfs, and the host's root is no longer reachable.
C29_RootfsUntouched ==
  /\ ~host.rootfs_changed
  /\ (init_pc \in {"target", "exited"} /\ BroughtUp) =>
       /\ mnt.overlay_opts.lowerdir = ROOTFS
       /\ StoredIn(mnt, mnt.root) = child_ctx.overlay_base \o "/upper"
       /\ mnt.old_root = "detached"

\* the target wrote, the write went to the upper layer, and Init is gone
C29_Witness ==
  /\ init_pc = "exited"
  /\ BroughtUp
  /\ target_sys = [nr |-> NR.write, verdict |-> "ALLOW"]
  /\ TargetWriteStoredIn(NR.write) = "/stray/path/upper"
  /\ ~host.rootfs_changed

\* C30 as stated: when setup_overlay has returned 0, the overlay is mounted
\* at overlay_base + "/merged" with the original rootfs as its lower layer,
\* and Init's rootfs field is overlay_base + "/merged".
C30_MergedPathExact ==
  ("setup_overlay" \in Range(init_steps) /\ init_failed # "setup_overlay") =>
    /\ mnt.overlay_opts.lowerdir = ROOTFS
    /\ mnt.overlay_at = child_ctx.overlay_base \o "/merged"
    /\ child_ctx.rootfs = child_ctx.overlay_base \o "/merged"

\* How often setup_overlay passed buffer b to free.
TimesFreed(b) == Cardinality({i \in 1..Len(overlay_heap.freed) : overlay_heap.freed[i] = b})

\* C31: when setup_overlay has returned, on success and on every failure
\* path, every heap buffer it allocated has been freed exactly once, and it
\* freed no buffer it had not allocated.
C31_OverlayBuffersFreedOnce ==
  overlay_heap.exit # 0 =>
    /\ \A b \in overlay_heap.allocated : TimesFreed(b) = 1
    /\ \A i \in 1..Len(overlay_heap.freed) : overlay_heap.freed[i] \in overlay_heap.allocated
\* C32: whenever Init has called pivot_root, new_root is the directory the
\* overlay is mounted at, the recursive bind mount of it onto itself
\* succeeded earlier in the same run (after the overlay mount), and put_old
\* is .pivot_old under it, a directory that exists until child.c:339
\* removes it.
C32_PivotRootPreconditions ==
  mnt.pivot # NoPivot =>
    /\ mnt.overlay_at # "none"
    /\ mnt.pivot.new_root = mnt.overlay_at
    /\ {"overlay", "bind rootfs"} \subseteq Range(mnt.mounted)
    /\ IndexOf(mnt.mounted, "overlay") < IndexOf(mnt.mounted, "bind rootfs")
    /\ mnt.pivot.put_old = mnt.overlay_at \o "/.pivot_old"
    /\ \/ mnt.pivot_old_dir
       \/ Sys("setup_rootfs", "rmdir", "/.pivot_old") \in Range(init_sys)

\* pivot_root was called and succeeded, the old root still attached
C32_Witness ==
  /\ mnt.pivot.new_root = MergedPath("/stray/path")
  /\ mnt.root = mnt.pivot.new_root
  /\ mnt.old_root = "/.pivot_old"
\* Init has made a capability call (child.c:436, 468).
CapabilityCallMade ==
  \E i \in 1..Len(init_sys) : init_sys[i].fn = "drop_capabilities"

\* C33: once pivot_root has succeeded Init mounts proc first and devtmpfs
\* second, and no capability call is made unless both mounts succeeded.
C33_ProcThenDev ==
  /\ "devtmpfs" \in Range(mnt.mounted) =>
        /\ "proc" \in Range(mnt.mounted)
        /\ IndexOf(mnt.mounted, "proc") < IndexOf(mnt.mounted, "devtmpfs")
  /\ CapabilityCallMade => {"proc", "devtmpfs"} \subseteq Range(mnt.mounted)
\* The PR_CAPBSET_DROP calls Init has made.
CapBsetDrops ==
  Cardinality({i \in 1..Len(init_sys) : init_sys[i].arg = "PR_CAPBSET_DROP"})

\* Init has called capset.
CapsetCalled == \E i \in 1..Len(init_sys) : init_sys[i].call = "capset"

\* drop_capabilities has returned 0.
DropCapabilitiesDone ==
  /\ "drop_capabilities" \in Range(init_steps)
  /\ init_pc # "drop_capabilities"
  /\ init_failed # "drop_capabilities"

\* C34: drop_capabilities asks PR_CAPBSET_DROP for the capabilities 0, 1, ...
\* in turn, one call each; a capability answered with EINVAL is skipped and
\* the loop goes on; any other error ends it in failure with no capset
\* call; capset is called only after all of 0..LastCap were asked for; and
\* when drop_capabilities has returned 0 every capability is out of the
\* bounding set or was answered with EINVAL, and the effective, permitted
\* and inheritable sets are empty.
C34_DropCapabilities ==
  /\ cap_einval \subseteq 0..(cap - 1)
  /\ bounding = {c \in 0..LastCap : c >= cap \/ c \in cap_einval}
  /\ CapBsetDrops = cap + (IF init_failed = "drop_capabilities" /\ cap <= LastCap THEN 1 ELSE 0)
  /\ CapsetCalled => cap = LastCap + 1
  /\ DropCapabilitiesDone => CapsetCalled /\ cap = LastCap + 1 /\ cap_sets = {}
  /\ ~CapsetCalled => cap_sets = {"effective", "permitted", "inheritable"}

\* drop_capabilities returned 0 although a capability was answered with
\* EINVAL
C34_Witness ==
  DropCapabilitiesDone /\ cap_einval # {} /\ bounding = cap_einval /\ cap_sets = {}
\* C35: Init changes no field of its configuration other than rootfs, and no
\* step of Init changes the Supervisor's configuration: from the return of
\* init_ctx on the Supervisor's copy of every field, rootfs included, stays
\* as it is until cleanup_ctx releases it.
C35_ConfigFrame ==
  [][/\ (child_ctx # NoCtx /\ child_ctx' # child_ctx) =>
          \A f \in DOMAIN child_ctx \ {"rootfs"} : child_ctx'[f] = child_ctx[f]
     /\ (ctx # NoCtx /\ ctx' # ctx) => (sup_pc = "cleanup" /\ ctx' = NoCtx)]_vars

\* the Supervisor is about to call cleanup_ctx with its rootfs as init_ctx
\* left it, after Init replaced its own
C35_Witness ==
  /\ sup_pc = "cleanup"
  /\ ctx # NoCtx
  /\ ctx.rootfs = ROOTFS
  /\ child_ctx # NoCtx
  /\ child_ctx.rootfs = MergedPath(child_ctx.overlay_base)
\* The place of a logged step of main in its order (main.c:192-253); every
\* step of configure_cgroups has place 4.
Stage(step) ==
  CASE step = "pipe"     -> 1
    [] step = "init_ctx" -> 2
    [] step = "spawn"    -> 3
    [] step = "write"    -> 5
    [] step = "wait"     -> 6
    [] step = "cleanup"  -> 7
    [] OTHER             -> 4

\* No cgroup file or directory has been opened, written or made.
CgroupsUntouched ==
  /\ ~ctrl_enabled
  /\ subtree.outcome = "none"
  /\ cg_order = <<>>
  /\ \A f \in Range(LimitFiles) : cg_files[f] = <<>> /\ cg_written[f] = NothingWritten
  /\ drv_fds = {}
  /\ cfg_ret = "none"
  /\ \A i \in 1..Len(sup_log) : Stage(sup_log[i]) # 4

\* C36: the Supervisor takes its steps in the order pipe, configuration,
\* spawn, cgroup configuration, sync byte, wait, release of the
\* configuration, each at most once apart from the cgroup steps and none
\* without the one before it; Init exists only when pipe, configuration and
\* spawn succeeded; and as long as no spawn has succeeded no cgroup file or
\* directory is touched.
C36_SupervisorOrder ==
  /\ sup_log # <<>> => Stage(sup_log[1]) = 1
  /\ \A i \in 1..(Len(sup_log) - 1) :
        \/ Stage(sup_log[i + 1]) = Stage(sup_log[i]) + 1
        \/ Stage(sup_log[i]) = 4 /\ Stage(sup_log[i + 1]) = 4
  /\ "write" \in Range(sup_log) => cfg_ret = "success"
  /\ init_pc # "unborn" => {"pipe", "init_ctx", "spawn"} \subseteq Range(sup_log)
  /\ "spawn" \notin Range(sup_log) => CgroupsUntouched /\ init_pc = "unborn"

\* a run that went through every step
C36_Witness ==
  /\ sup_log = <<"pipe", "init_ctx", "spawn", "enable_controllers", "make_cgroup_dir">>
                 \o LimitFiles \o <<"write", "wait", "cleanup">>
  /\ sup_exit = "EXIT_SUCCESS"
\* The instruction (counted from 0) a conditional jump at index pc goes to
\* when the comparison gives b.
JumpTarget(pc, b) ==
  LET ins == prog.filter[pc + 1] IN pc + 1 + (IF b THEN ins.jt ELSE ins.jf)

\* filter.c:72-249: the program starts with the load, its jumps stay inside
\* it, it ends with the return of KILL_PROCESS, and it has two instructions
\* for each whitelisted system call and two more.
FilterShape ==
  /\ prog.filter[1] = LdNr
  /\ \A pc \in 0..(prog.len - 1) :
        prog.filter[pc + 1].code = "JMP_JEQ_K" =>
          \A b \in BOOLEAN : JumpTarget(pc, b) < prog.len
  /\ prog.filter[prog.len] = Ret("KILL_PROCESS")
  /\ prog.len = 2 + 2 * Cardinality(ListedWithALLOW)

\* C37: the program's first instruction loads the system call number, each
\* conditional jump goes, on either outcome, to an instruction inside the
\* program, the last instruction is the unconditional return of
\* KILL_PROCESS, the program has 2 + 2 * (number of whitelisted system
\* calls) instructions, and every run of it ends at a return instruction
\* of the program.
C37_FilterEndsInside ==
  /\ FilterShape
  /\ target_sys.verdict # "none" => target_sys.verdict \in {"ALLOW", "KILL_PROCESS"}

\* a run of the program that matched no ALLOW and ended at the last
\* instruction
C37_Witness ==
  /\ target_sys.nr = MaxSyscallNr
  /\ target_sys.nr \notin ListedWithALLOW
  /\ seccomp_run(target_sys.nr) = prog.filter[prog.len].k
  /\ target_sys.verdict = "KILL_PROCESS"
\* C38: every system call Init itself issues with the filter installed (the
\* execve of the target and, when it fails, the write of the diagnostic and
\* the exit) is one the filter allows, so an Init whose exec failed has
\* exited with its status and was not killed by the filter, and an Init
\* whose exec succeeded has become the target.
C38_InitOwnCallsAllowed ==
  "execvp" \in Range(init_steps) =>
    /\ \A ok \in BOOLEAN : \A n \in Range(InitCallsAfterSeccomp(ok)) :
          n \in ListedWithALLOW /\ FilterVerdict[n] = "ALLOW"
    /\ init_failed = "execvp" =>
          init_status = [kind |-> "exited", code |-> ExitCode(child_fail_return("execvp"))]
    /\ init_failed # "execvp" => init_pc = "target" \/ target_sys.verdict # "none"
                                   \/ init_status \in TargetEnds

\* exec failed with the filter installed and Init exited on its own
C38_Witness ==
  /\ seccomp_on
  /\ init_failed = "execvp"
  /\ init_status.kind = "exited"
  /\ init_sys[Len(init_sys)].call = "execve"
\* C39: when Init has exec'd the target, the process holds no open
\* descriptor of the read end or of the write end of the sync pipe.
C39_TargetInheritsNoPipeEnd ==
  init_pc = "target" => "init" \notin pipe_rd \cup pipe_wr
\* C40: when the Supervisor has ended, its exit status is EXIT_SUCCESS if
\* it reached the wait, whatever became of Init, and EXIT_FAILURE if it did
\* not, that is if the pipe, init_ctx, the spawn, the cgroup configuration
\* or the write of the sync byte failed.
C40_SupervisorExitStatus ==
  sup_pc = "done" =>
    sup_exit = (IF "wait" \in Range(sup_log) THEN "EXIT_SUCCESS" ELSE "EXIT_FAILURE")
====
